---------------------------- MODULE Spec2Model ----------------------------
(***************************************************************************)
(* A model of the term engine of pySELL (math.js, math_ODE.js): the lexer  *)
(* Term.next, the recursive-descent parser Term.parse, TermNode.toString,  *)
(* Term.eval over the rational fragment, Term.compare and compareODE.      *)
(*                                                                         *)
(* Strings are sequences of one-character strings, so that the lexer can   *)
(* index them as the code does.  Numbers are exact rationals <<n, d>>      *)
(* (d > 0, lowest terms); d = 0 encodes the IEEE values NaN = <<0, 0>>,    *)
(* +Infinity = <<1, 0>> and -Infinity = <<-1, 0>>; <<n, d, 2>> is the      *)
(* irrational square root of n/d.                                          *)
(***************************************************************************)
EXTENDS Integers, Sequences, FiniteSets, TLC

(***************************************************************************)
(* Characters                                                              *)
(***************************************************************************)
Digits == {"0", "1", "2", "3", "4", "5", "6", "7", "8", "9"}

LowerCase ==
  {"a", "b", "c", "d", "e", "f", "g", "h", "i", "j", "k", "l", "m",
   "n", "o", "p", "q", "r", "s", "t", "u", "v", "w", "x", "y", "z"}

UpperCase ==
  {"A", "B", "C", "D", "E", "F", "G", "H", "I", "J", "K", "L", "M",
   "N", "O", "P", "Q", "R", "S", "T", "U", "V", "W", "X", "Y", "Z"}

WhiteSpace == {"\t", "\n", " "}

Delimiters ==
  {"^", "%", "#", "*", "$", "(", ")", "[", "]", "{", "}", ",", ".", ":",
   ";", "+", "-", "/", "_", "!", "<", ">", "=", "?", "|"} \cup WhiteSpace

isNum(ch) == ch \in Digits

isAlpha(ch) == ch \in UpperCase \cup LowerCase \cup {"_"}

LowerOf ==
  [ch \in UpperCase |->
     CASE ch = "A" -> "a" [] ch = "B" -> "b" [] ch = "C" -> "c"
       [] ch = "D" -> "d" [] ch = "E" -> "e" [] ch = "F" -> "f"
       [] ch = "G" -> "g" [] ch = "H" -> "h" [] ch = "I" -> "i"
       [] ch = "J" -> "j" [] ch = "K" -> "k" [] ch = "L" -> "l"
       [] ch = "M" -> "m" [] ch = "N" -> "n" [] ch = "O" -> "o"
       [] ch = "P" -> "p" [] ch = "Q" -> "q" [] ch = "R" -> "r"
       [] ch = "S" -> "s" [] ch = "T" -> "t" [] ch = "U" -> "u"
       [] ch = "V" -> "v" [] ch = "W" -> "w" [] ch = "X" -> "x"
       [] ch = "Y" -> "y" [] OTHER -> "z"]

toLowerCase(s) ==
  [k \in 1..Len(s) |-> IF s[k] \in UpperCase THEN LowerOf[s[k]] ELSE s[k]]

startsWith(s, prefix) ==
  /\ Len(prefix) <= Len(s)
  /\ SubSeq(s, 1, Len(prefix)) = prefix

substring(s, from) == SubSeq(s, from + 1, Len(s))

DigitValue(ch) ==
  CASE ch = "0" -> 0 [] ch = "1" -> 1 [] ch = "2" -> 2 [] ch = "3" -> 3
    [] ch = "4" -> 4 [] ch = "5" -> 5 [] ch = "6" -> 6 [] ch = "7" -> 7
    [] ch = "8" -> 8 [] OTHER -> 9

DigitChar(k) ==
  CASE k = 0 -> "0" [] k = 1 -> "1" [] k = 2 -> "2" [] k = 3 -> "3"
    [] k = 4 -> "4" [] k = 5 -> "5" [] k = 6 -> "6" [] k = 7 -> "7"
    [] k = 8 -> "8" [] OTHER -> "9"

(***************************************************************************)
(* Numbers                                                                 *)
(***************************************************************************)
\* the atoms of the longest source that is enumerated
MaxLen == 3

\* Math.random() is drawn from the values 1/2^k, 0 < k < RandomSteps
RandomSteps == 3

\* minimize: the bound of the passes of its loop
MAX_ITERATIONS == 1000

\* the passes of the loop of minimize that the model follows one by one; a
\* loop that has not ended by then is followed to its end only where it
\* stands still (standsStill), and the model has no value of minimize
\* elsewhere
MaxIterations == 8

\* minimize: EPS = 1e-11 and the initial lastDirection = 888
MinimizeEpsDigits == 11
InitialDirection == 888

\* compare: EPS = 1e-9 and NUM_TESTS = 10
CompareEpsDigits == 9
NUM_TESTS == 10

RECURSIVE GCD(_, _)
GCD(a, b) == IF b = 0 THEN a ELSE GCD(b, a % b)

AbsInt(a) == IF a < 0 THEN -a ELSE a

NaN == <<0, 0>>
PosInf == <<1, 0>>
NegInf == <<-1, 0>>

isFinite(x) == x[2] # 0
isNaN(x) == x = NaN

\* An irrational Math.sqrt is kept as the surd <<n, d, 2>>: the square
\* root of n/d for n > 0, its negative for n < 0.
isSurd(x) == Len(x) = 3

\* the rational n/d in lowest terms; d = 0 gives the IEEE result of n/0
Rat(n, d) ==
  IF d = 0 THEN (IF n > 0 THEN PosInf ELSE IF n < 0 THEN NegInf ELSE NaN)
  ELSE LET g == GCD(AbsInt(n), AbsInt(d))
           s == IF d < 0 THEN -1 ELSE 1
       IN <<(s * n) \div g, (s * d) \div g>>

Zero == <<0, 1>>
One == <<1, 1>>

Sign(x) == IF x[1] > 0 THEN 1 ELSE IF x[1] < 0 THEN -1 ELSE 0

Neg(x) == IF isSurd(x) THEN <<-x[1], x[2], 2>> ELSE <<-x[1], x[2]>>

\* x + y, x * y and x / y for two values that are no surds
AddRat(x, y) ==
  IF isFinite(x) /\ isFinite(y)
  THEN LET g == GCD(x[2], y[2])
       IN Rat(x[1] * (y[2] \div g) + y[1] * (x[2] \div g),
              (x[2] \div g) * y[2])
  ELSE IF isNaN(x) \/ isNaN(y) THEN NaN
  ELSE IF isFinite(x) THEN y
  ELSE IF isFinite(y) THEN x
  ELSE IF x = y THEN x ELSE NaN

MulRat(x, y) ==
  IF isFinite(x) /\ isFinite(y)
  THEN LET g == GCD(AbsInt(x[1]), y[2])
           h == GCD(AbsInt(y[1]), x[2])
       IN Rat((x[1] \div g) * (y[1] \div h), (x[2] \div h) * (y[2] \div g))
  ELSE IF isNaN(x) \/ isNaN(y) THEN NaN
  ELSE Rat(Sign(x) * Sign(y), 0)

DivRat(x, y) ==
  IF isFinite(x) /\ isFinite(y) THEN Rat(x[1] * y[2], x[2] * y[1])
  ELSE IF isNaN(x) \/ isNaN(y) THEN NaN
  ELSE IF isFinite(x) THEN Zero
  ELSE IF isFinite(y) THEN (IF Sign(y) < 0 THEN Neg(x) ELSE x)
  ELSE NaN

\* the largest r in lo..hi with r * r <= n
RECURSIVE isqrtIn(_, _, _)
isqrtIn(n, lo, hi) ==
  IF lo >= hi THEN lo
  ELSE IF ((lo + hi + 1) \div 2) * ((lo + hi + 1) \div 2) <= n
  THEN isqrtIn(n, (lo + hi + 1) \div 2, hi)
  ELSE isqrtIn(n, lo, (lo + hi + 1) \div 2 - 1)

isqrt(n) == isqrtIn(n, 0, IF n < 46340 THEN n ELSE 46340)

\* the square of a value, as a rational
Squared(x) ==
  IF isSurd(x) THEN <<AbsInt(x[1]), x[2]>> ELSE <<x[1] * x[1], x[2] * x[2]>>

\* s * Math.sqrt(n/d) from a = isqrt(n) and b = isqrt(d)
rootFrom(s, q, a, b) ==
  IF a * a = q[1] /\ b * b = q[2] THEN <<s * a, b>> ELSE <<s * q[1], q[2], 2>>

\* s * Math.sqrt(q) for a sign s and a rational q >= 0 (s = 0 when q is 0
\* or NaN): the rational when q is a square, the surd when it is none
Root(s, q) == rootFrom(s, q, isqrt(q[1]), isqrt(q[2]))

\* c * y for a rational c and a surd y
scaled(c, y) ==
  Root(Sign(c) * Sign(y), MulRat(Squared(c), Squared(y)))

\* x + y for a finite x and a finite y other than 0, one of them a surd,
\* from r = x / y: (r + 1) * y when r is rational
addSurd(y, r) ==
  CASE ~isSurd(r) -> scaled(AddRat(r, One), y)

\* x + y.  With a surd the sum is a rational or a surd again when one side
\* is 0 or x / y is rational; another sum with a surd (|x| + 1 for an
\* irrational |x|) is no value of the model.
Add(x, y) ==
  IF ~isSurd(x) /\ ~isSurd(y) THEN AddRat(x, y)
  ELSE IF ~isFinite(x) THEN x
  ELSE IF ~isFinite(y) THEN y
  ELSE IF y = Zero THEN x
  ELSE addSurd(y, Root(Sign(x) * Sign(y), DivRat(Squared(x), Squared(y))))

Sub(x, y) == Add(x, Neg(y))

\* x * y: with a surd, the root of x^2 * y^2 with the sign of the product
Mul(x, y) ==
  IF ~isSurd(x) /\ ~isSurd(y) THEN MulRat(x, y)
  ELSE Root(Sign(x) * Sign(y), MulRat(Squared(x), Squared(y)))

\* x / y: with a surd, the root of x^2 / y^2 with the sign of the quotient
Div(x, y) ==
  IF ~isSurd(x) /\ ~isSurd(y) THEN DivRat(x, y)
  ELSE Root(Sign(x) * (IF y = Zero THEN 1 ELSE Sign(y)),
            DivRat(Squared(x), Squared(y)))

\* Math.sqrt(x) of a value that is no surd
Sqrt(x) ==
  CASE ~isSurd(x) ->
    IF isNaN(x) \/ x = NegInf \/ x[1] < 0 THEN NaN
    ELSE IF x = PosInf THEN PosInf
    ELSE IF x[1] = 0 THEN Zero
    ELSE Root(1, x)

\* x < y for two rationals, the common factor of the denominators removed
LessRat(x, y) ==
  LET g == GCD(x[2], y[2])
  IN x[1] * (y[2] \div g) < y[1] * (x[2] \div g)

\* x < y and x > y as IEEE comparisons: false as soon as one side is NaN
Less(x, y) ==
  /\ ~isNaN(x) /\ ~isNaN(y)
  /\ IF isFinite(x) /\ isFinite(y)
     THEN IF isSurd(x) \/ isSurd(y)
          THEN IF Sign(x) # Sign(y) THEN Sign(x) < Sign(y)
               ELSE IF Sign(x) > 0 THEN LessRat(Squared(x), Squared(y))
               ELSE LessRat(Squared(y), Squared(x))
          ELSE LessRat(x, y)
     ELSE IF isFinite(x) THEN y = PosInf
     ELSE IF isFinite(y) THEN x = NegInf
     ELSE x = NegInf /\ y = PosInf

Greater(x, y) == Less(y, x)

AbsRat(x) == IF x[1] < 0 THEN Neg(x) ELSE x

RECURSIVE Pow10(_)
Pow10(k) == IF k = 0 THEN 1 ELSE 10 * Pow10(k - 1)

\* floor(d / 10^k), computed without leaving the 32-bit integers
RECURSIVE DivPow10(_, _)
DivPow10(d, k) ==
  IF k = 0 THEN d
  ELSE IF k <= 9 THEN d \div Pow10(k)
  ELSE DivPow10(d \div Pow10(9), k - 9)

\* x > 1e-k:  n/d > 1/10^k  iff  floor(d / 10^k) < n  for n >= 1;
\* sqrt(n/d) > 1e-k  iff  n/d > 1e-2k
GreaterPow10(x, k) ==
  IF ~isFinite(x) THEN x = PosInf
  ELSE x[1] >= 1 /\ DivPow10(x[2], IF isSurd(x) THEN 2 * k ELSE k) < x[1]

\* x < 1e-k:  n/d < 1/10^k  iff  n <= floor((d - 1) / 10^k)
LessPow10(x, k) ==
  IF ~isFinite(x) THEN x = NegInf
  ELSE x[1] <= 0 \/ x[1] <= DivPow10(x[2] - 1, IF isSurd(x) THEN 2 * k ELSE k)

(***************************************************************************)
(* TermNode                                                                *)
(***************************************************************************)
OpConst == <<"c", "o", "n", "s", "t">>
OpVar == <<"v", "a", "r", ":">>
OpUnaryMinus == <<".", "-">>
OpAbs == <<"a", "b", "s">>
OpExp == <<"e", "x", "p">>
OpLn == <<"l", "n">>

\* new TermNode(op, c, re, im)
TermNode(op, c, re, im) ==
  [op |-> op, c |-> c, re |-> re, im |-> im, explicitParentheses |-> FALSE]

\* TermNode.const(re, im)
const(re, im) == TermNode(OpConst, <<>>, re, im)

isVarOp(op) == startsWith(op, OpVar)

BinaryOps == {<<"+">>, <<"-">>, <<"*">>, <<"/">>, <<"^">>}

(***************************************************************************)
(* Term: the lexer                                                         *)
(*                                                                         *)
(* A Term is the record of the fields of the class: src, token,            *)
(* skippedWhiteSpace, pos and root.  The field log is a history of the     *)
(* parser's decisions that the class does not keep; no operation reads it: *)
(* "open" and "close" for the delimiters of a group or of a function       *)
(* argument, "arg" for the end of a function argument without parentheses, *)
(* "op" for an explicit binary operator and "mul" for an implicit          *)
(* multiplication, each with the token at hand, its offset in src, the     *)
(* flag skippedWhiteSpace and the stopAtSpace of the running function.     *)
(***************************************************************************)
\* null, the root of a Term before parse (constructor): no TermNode
NoNode == [null |-> TRUE]

\* the TypeError that reading a property of null throws
TypeError == "TypeError"

newTerm(src) ==
  [src |-> src, token |-> <<>>, skippedWhiteSpace |-> FALSE, pos |-> 0,
   root |-> NoNode, log |-> <<>>]

\* a variant of (a) that skips nothing
skipNoWhiteSpace(src, pos) == pos

\* (a) the position after the white space that starts at pos
RECURSIVE skipWhiteSpace(_, _)
skipWhiteSpace(src, pos) ==
  IF pos < Len(src) /\ src[pos + 1] \in WhiteSpace
  THEN skipWhiteSpace(src, pos + 1)
  ELSE pos

\* (b) the loop that collects the token: [token, pos] when it ends
RECURSIVE scanToken(_, _, _, _)
scanToken(src, pos, token, stop) ==
  IF stop \/ pos >= Len(src) THEN [token |-> token, pos |-> pos]
  ELSE LET ch == src[pos + 1]
           boundary ==
             /\ Len(token) > 0
             /\ \/ isNum(token[1]) /\ isAlpha(ch)
                \/ isAlpha(token[1]) /\ isNum(ch)
       IN IF boundary /\ token # <<"C">>
          THEN [token |-> token, pos |-> pos]
          ELSE IF ch \in Delimiters /\ Len(token) > 0
          THEN [token |-> token, pos |-> pos]
          ELSE scanToken(src, pos + 1,
                         IF ch \in WhiteSpace THEN token ELSE Append(token, ch),
                         ch \in Delimiters)

\* Term.next(numChars)
next(t, numChars) ==
  IF numChars > 0 /\ Len(t.token) > numChars
  THEN [t EXCEPT !.token = substring(t.token, numChars),
                 !.skippedWhiteSpace = FALSE]
  ELSE LET p == skipWhiteSpace(t.src, t.pos)
           r == scanToken(t.src, p, <<>>, FALSE)
       IN [t EXCEPT !.token = r.token, !.pos = r.pos,
                    !.skippedWhiteSpace = (p > t.pos)]

\* Term.fun1(): the names in the order of the array of the code
fun1Names ==
  << <<"a","b","s">>, <<"a","c","o","s">>, <<"a","c","o","s","h">>,
     <<"a","s","i","n">>, <<"a","s","i","n","h">>, <<"a","t","a","n">>,
     <<"a","t","a","n","h">>, <<"c","e","i","l">>, <<"c","o","s">>,
     <<"c","o","s","h">>, <<"c","o","t">>, <<"e","x","p">>,
     <<"f","l","o","o","r">>, <<"l","n">>, <<"l","o","g">>,
     <<"l","o","g","1","0">>, <<"l","o","g","2">>, <<"r","o","u","n","d">>,
     <<"s","i","n">>, <<"s","i","n","c">>, <<"s","i","n","h">>,
     <<"s","q","r","t">>, <<"t","a","n">>, <<"t","a","n","h">>
  >>

RECURSIVE fun1From(_, _)
fun1From(token, k) ==
  IF k > Len(fun1Names) THEN <<>>
  ELSE IF startsWith(toLowerCase(token), fun1Names[k]) THEN fun1Names[k]
  ELSE fun1From(token, k + 1)

fun1(token) == fun1From(token, 1)

(***************************************************************************)
(* Term: the parser                                                        *)
(*                                                                         *)
(* Every parse function returns [t, node, err]: the Term after the call,   *)
(* the node it built, and the message of the Error it threw ("" if none).  *)
(***************************************************************************)
Ok(t, node) == [t |-> t, node |-> node, err |-> ""]
Fail(t, msg) == [t |-> t, node |-> NoNode, err |-> msg]

\* the history entry of a decision taken at the current token
Logged(t, kind, stopAtSpace, op) ==
  [t EXCEPT !.log = Append(@,
     [kind |-> kind, at |-> t.pos - Len(t.token), token |-> t.token,
      skippedWhiteSpace |-> t.skippedWhiteSpace,
      stopAtSpace |-> stopAtSpace, op |-> op])]

\* the digits that s starts with
RECURSIVE digitPrefix(_)
digitPrefix(s) ==
  IF Len(s) > 0 /\ isNum(s[1]) THEN <<s[1]>> \o digitPrefix(Tail(s)) ELSE <<>>

RECURSIVE digitsValue(_)
digitsValue(s) ==
  IF Len(s) = 0 THEN 0
  ELSE 10 * digitsValue(SubSeq(s, 1, Len(s) - 1)) + DigitValue(s[Len(s)])

\* parseFloat(v) for a v that starts with a digit: the longest prefix of v
\* of the form digits [ "." digits ]
parseFloat(v) ==
  LET int == digitPrefix(v)
      rest == substring(v, Len(int))
      frac == IF Len(rest) > 0 /\ rest[1] = "." THEN digitPrefix(Tail(rest))
              ELSE <<>>
  IN IF Len(int) = 0 THEN NaN
     ELSE Rat(digitsValue(int) * Pow10(Len(frac)) + digitsValue(frac),
              Pow10(Len(frac)))

\* a variant of identifierOf that takes the letters and digits of the whole
\* token
identifierWhole(token) == token

\* the identifier that parseInfix takes from the front of the token
identifierOf(token) ==
  LET id == IF startsWith(token, <<"p", "i">>) THEN <<"p", "i">>
            ELSE IF startsWith(token, <<"t", "r", "u", "e">>)
              THEN <<"t", "r", "u", "e">>
            ELSE IF startsWith(token, <<"f", "a", "l", "s", "e">>)
              THEN <<"f", "a", "l", "s", "e">>
            ELSE IF startsWith(token, <<"C", "1">>) THEN <<"C", "1">>
            ELSE IF startsWith(token, <<"C", "2">>) THEN <<"C", "2">>
            ELSE <<token[1]>>
  IN IF id = <<"I">> THEN <<"i">> ELSE id

\* a variant of stopHere that never stops at white space
stopHereNever(t, stopAtSpace) == FALSE

\* the test "if (stopAtSpace && this.skippedWhiteSpace) break" of the loops
stopHere(t, stopAtSpace) == stopAtSpace /\ t.skippedWhiteSpace

\* A parse function calls another one as call(name, t, stopAtSpace, node);
\* node is the left operand that a loop has built so far.
RECURSIVE call(_, _, _, _)

\* Term.parseExpr(stopAtSpace)
parseExpr(t, stopAtSpace) == call("parseAdd", t, stopAtSpace, NoNode)

\* the number branch of parseInfix
parseNumber(t) ==
  LET v == t.token
      t1 == next(t, -1)
  IN IF t1.token = <<".">>
     THEN LET t2 == next(t1, -1)
          IN IF Len(t2.token) > 0
             THEN Ok(next(t2, -1),
                     TermNode(OpConst, <<>>,
                              parseFloat(v \o <<".">> \o t2.token), Zero))
             ELSE Ok(t2, TermNode(OpConst, <<>>, parseFloat(v \o <<".">>), Zero))
     ELSE Ok(t1, TermNode(OpConst, <<>>, parseFloat(v), Zero))

\* the function branch of parseInfix
parseFunction(t, stopAtSpace) ==
  LET op == fun1(t.token)
      t1 == next(t, Len(op))
  IN IF t1.token = <<"(">>
     THEN LET r == parseExpr(next(Logged(t1, "open", stopAtSpace, op), -1),
                             stopAtSpace)
          IN IF r.err # "" THEN r
             ELSE IF r.t.token = <<")">>
             THEN Ok(next(Logged(r.t, "close", stopAtSpace, op), -1),
                     TermNode(op, <<r.node>>, Zero, Zero))
             ELSE Fail(r.t, "expected ')'")
     ELSE LET r == call("parseMul", t1, TRUE, NoNode)
          IN IF r.err # "" THEN r
             ELSE Ok(Logged(r.t, "arg", stopAtSpace, r.node.op),
                     TermNode(op, <<r.node>>, Zero, Zero))

\* the branches "(" expr ")" and "|" expr "|" of parseInfix
parseGroup(t, stopAtSpace) ==
  LET open == t.token
      close == IF open = <<"(">> THEN <<")">> ELSE <<"|">>
      r == parseExpr(next(Logged(t, "open", stopAtSpace, open), -1), stopAtSpace)
  IN IF r.err # "" THEN r
     ELSE IF r.t.token = close
     THEN Ok(next(Logged(r.t, "close", stopAtSpace, open), -1),
             IF open = <<"(">>
             THEN [r.node EXCEPT !.explicitParentheses = TRUE]
             ELSE TermNode(OpAbs, <<r.node>>, Zero, Zero))
     ELSE Fail(r.t, IF open = <<"(">> THEN "expected ')'" ELSE "expected '|'")

\* Term.parseInfix(stopAtSpace)
parseInfix(t, stopAtSpace) ==
  IF Len(t.token) = 0 THEN Fail(t, "expected unary")
  ELSE IF isNum(t.token[1]) THEN parseNumber(t)
  ELSE IF Len(fun1(t.token)) > 0 THEN parseFunction(t, stopAtSpace)
  ELSE IF t.token = <<"(">> \/ t.token = <<"|">> THEN parseGroup(t, stopAtSpace)
  ELSE IF isAlpha(t.token[1])
  THEN LET id == identifierOf(t.token)
       IN Ok(next(t, Len(id)), TermNode(OpVar \o id, <<>>, Zero, Zero))
  ELSE Fail(t, "expected unary")

\* Term.parseUnary(stopAtSpace)
parseUnary(t, stopAtSpace) ==
  IF t.token = <<"-">>
  THEN LET r == call("parseMul", next(t, -1), stopAtSpace, NoNode)
       IN IF r.err # "" THEN r
          ELSE Ok(r.t, TermNode(OpUnaryMinus, <<r.node>>, Zero, Zero))
  ELSE parseInfix(t, stopAtSpace)

\* a variant of the loop of parsePow that takes the whole power to the right
\* as the exponent
parsePowLoopRight(t, node, stopAtSpace) ==
  IF t.token = <<"^">> /\ ~stopHere(t, stopAtSpace)
  THEN LET r == call("parsePow", next(Logged(t, "op", stopAtSpace, t.token), -1),
                     stopAtSpace, NoNode)
       IN IF r.err # "" THEN r
          ELSE Ok(r.t, TermNode(t.token, <<node, r.node>>, Zero, Zero))
  ELSE Ok(t, node)

\* Term.parsePow(stopAtSpace): the first operand, then the loop
parsePow(t, stopAtSpace) ==
  LET r == call("parseUnary", t, stopAtSpace, NoNode)
  IN IF r.err # "" THEN r ELSE call("parsePowLoop", r.t, stopAtSpace, r.node)

parsePowLoop(t, node, stopAtSpace) ==
  IF t.token = <<"^">> /\ ~stopHere(t, stopAtSpace)
  THEN LET r == call("parseUnary", next(Logged(t, "op", stopAtSpace, t.token), -1),
                     stopAtSpace, NoNode)
       IN IF r.err # "" THEN r
          ELSE call("parsePowLoop", r.t, stopAtSpace,
                    TermNode(t.token, <<node, r.node>>, Zero, Zero))
  ELSE Ok(t, node)

\* whether parseMul, with no "*" or "/" at hand, multiplies implicitly
implicitMul(t, stopAtSpace) ==
  \/ ~stopAtSpace /\ t.token = <<"(">>
  \/ Len(t.token) > 0 /\ (isAlpha(t.token[1]) \/ isNum(t.token[1]))

\* Term.parseMul(stopAtSpace): the first operand, then the loop
parseMul(t, stopAtSpace) ==
  LET r == call("parsePow", t, stopAtSpace, NoNode)
  IN IF r.err # "" THEN r ELSE call("parseMulLoop", r.t, stopAtSpace, r.node)

parseMulLoop(t, node, stopAtSpace) ==
  IF stopHere(t, stopAtSpace) THEN Ok(t, node)
  ELSE IF t.token = <<"*">> \/ t.token = <<"/">>
  THEN LET r == call("parsePow", next(Logged(t, "op", stopAtSpace, t.token), -1),
                     stopAtSpace, NoNode)
       IN IF r.err # "" THEN r
          ELSE call("parseMulLoop", r.t, stopAtSpace,
                    TermNode(t.token, <<node, r.node>>, Zero, Zero))
  ELSE IF implicitMul(t, stopAtSpace)
  THEN LET r == call("parsePow", Logged(t, "mul", stopAtSpace, <<"*">>),
                     stopAtSpace, NoNode)
       IN IF r.err # "" THEN r
          ELSE call("parseMulLoop", r.t, stopAtSpace,
                    TermNode(<<"*">>, <<node, r.node>>, Zero, Zero))
  ELSE Ok(t, node)

\* Term.parseAdd(stopAtSpace): the first operand, then the loop
parseAdd(t, stopAtSpace) ==
  LET r == call("parseMul", t, stopAtSpace, NoNode)
  IN IF r.err # "" THEN r ELSE call("parseAddLoop", r.t, stopAtSpace, r.node)

parseAddLoop(t, node, stopAtSpace) ==
  IF (t.token = <<"+">> \/ t.token = <<"-">>) /\ ~stopHere(t, stopAtSpace)
  THEN LET r == call("parseMul", next(Logged(t, "op", stopAtSpace, t.token), -1),
                     stopAtSpace, NoNode)
       IN IF r.err # "" THEN r
          ELSE call("parseAddLoop", r.t, stopAtSpace,
                    TermNode(t.token, <<node, r.node>>, Zero, Zero))
  ELSE Ok(t, node)

call(name, t, stopAtSpace, node) ==
  CASE name = "parseAdd" -> parseAdd(t, stopAtSpace)
    [] name = "parseAddLoop" -> parseAddLoop(t, node, stopAtSpace)
    [] name = "parseMul" -> parseMul(t, stopAtSpace)
    [] name = "parseMulLoop" -> parseMulLoop(t, node, stopAtSpace)
    [] name = "parsePow" -> parsePow(t, stopAtSpace)
    [] name = "parsePowLoop" -> parsePowLoop(t, node, stopAtSpace)
    [] name = "parseUnary" -> parseUnary(t, stopAtSpace)

\* a variant of parse that returns the tree with tokens left over
parseWithoutEndCheck(src) ==
  LET r == parseExpr(next(newTerm(src), -1), FALSE)
  IN IF r.err # "" THEN [t |-> r.t, err |-> r.err]
     ELSE [t |-> [r.t EXCEPT !.root = r.node], err |-> ""]

\* Term.parse(src): [t, err], t.root being the tree when err = ""
parse(src) ==
  LET r == parseExpr(next(newTerm(src), -1), FALSE)
  IN IF r.err # "" THEN [t |-> r.t, err |-> r.err]
     ELSE IF r.t.token # <<>> THEN [t |-> r.t, err |-> "remaining tokens"]
     ELSE [t |-> [r.t EXCEPT !.root = r.node], err |-> ""]

(***************************************************************************)
(* TermNode.toString                                                       *)
(***************************************************************************)
RECURSIVE intToString(_)
intToString(n) ==
  IF n < 10 THEN <<DigitChar(n)>>
  ELSE intToString(n \div 10) \o <<DigitChar(n % 10)>>

RECURSIVE zeros(_)
zeros(k) == IF k <= 0 THEN <<>> ELSE <<"0">> \o zeros(k - 1)

\* how often the prime p divides d >= 1
RECURSIVE multiplicity(_, _)
multiplicity(d, p) == IF d % p = 0 THEN 1 + multiplicity(d \div p, p) ELSE 0

\* the decimal expansion of n/d ends: d is a product of powers of 2 and 5
terminating(d) == d = 2 ^ multiplicity(d, 2) * 5 ^ multiplicity(d, 5)

\* the least k with d | 10^k, for the denominator of a decimal number
decimalsOf(d) ==
  IF multiplicity(d, 2) >= multiplicity(d, 5) THEN multiplicity(d, 2)
  ELSE multiplicity(d, 5)

\* the decimal digits of a number times f <= 9 plus carry, digit by digit
\* from the right, so that no product leaves the 32-bit integers
RECURSIVE digitsTimes(_, _, _)
digitsTimes(digits, f, carry) ==
  IF Len(digits) = 0 THEN (IF carry = 0 THEN <<>> ELSE <<carry>>)
  ELSE Append(digitsTimes(SubSeq(digits, 1, Len(digits) - 1), f,
                          (digits[Len(digits)] * f + carry) \div 10),
              (digits[Len(digits)] * f + carry) % 10)

\* the digits times f^k
RECURSIVE digitsTimesPower(_, _, _)
digitsTimesPower(digits, f, k) ==
  IF k = 0 THEN digits
  ELSE digitsTimesPower(digitsTimes(digits, f, 0), f, k - 1)

\* the digits of the integer n
RECURSIVE digitsOf(_)
digitsOf(n) == IF n < 10 THEN <<n>> ELSE Append(digitsOf(n \div 10), n % 10)

\* the digits of n * 10^k / d for k = decimalsOf(d): n times the power of 2
\* or of 5 that 10^k / d is
scaledDigits(n, d) ==
  digitsTimesPower(
    digitsTimesPower(digitsOf(n), 2, decimalsOf(d) - multiplicity(d, 2)),
    5, decimalsOf(d) - multiplicity(d, 5))

\* the digits without the zeros at their end
RECURSIVE significant(_)
significant(digits) ==
  IF Len(digits) > 1 /\ digits[Len(digits)] = 0
  THEN significant(SubSeq(digits, 1, Len(digits) - 1))
  ELSE digits

digitChars(digits) == [k \in 1..Len(digits) |-> DigitChar(digits[k])]

\* Number::toString prints the shortest decimal number that the double is
\* the nearest one to.  For a number with at most 15 significant digits
\* that is the number itself: no two of them have the same nearest double.
\* The model prints no other number.
printable(x) ==
  /\ ~isSurd(x)
  /\ isFinite(x) => /\ terminating(x[2])
                    /\ Len(significant(scaledDigits(AbsInt(x[1]), x[2]))) <= 15

\* Number::toString of the positive number digits * 10^(n - Len(digits)):
\* the digits with the decimal point for 0 < n <= 21, "0." and the zeros
\* for -6 < n <= 0, and the exponent n - 1 for the smaller numbers
positiveDigitsToString(digits, k, n) ==
  IF k = 0 THEN digits
  ELSE IF n > 0
  THEN SubSeq(digits, 1, n) \o <<".">> \o SubSeq(digits, n + 1, Len(digits))
  ELSE IF n > -6 THEN <<"0", ".">> \o zeros(-n) \o digits
  ELSE <<digits[1]>>
       \o (IF Len(digits) > 1 THEN <<".">> \o Tail(digits) ELSE <<>>)
       \o <<"e", "-">> \o intToString(1 - n)

\* Number::toString of a positive number x
positiveToString(x) ==
  positiveDigitsToString(digitChars(scaledDigits(x[1], x[2])),
                         decimalsOf(x[2]),
                         Len(scaledDigits(x[1], x[2])) - decimalsOf(x[2]))

\* "" + x for a number x
numberToString(x) ==
  CASE printable(x) ->
  IF isNaN(x) THEN <<"N", "a", "N">>
  ELSE IF x = PosInf THEN <<"I", "n", "f", "i", "n", "i", "t", "y">>
  ELSE IF x = NegInf THEN <<"-", "I", "n", "f", "i", "n", "i", "t", "y">>
  ELSE IF x[1] = 0 THEN <<"0">>
  ELSE IF x[1] < 0 THEN <<"-">> \o positiveToString(Neg(x))
  ELSE positiveToString(x)

\* this.op.split(":")[1]
RECURSIVE upToColon(_)
upToColon(s) ==
  IF Len(s) = 0 \/ s[1] = ":" THEN <<>> ELSE <<s[1]>> \o upToColon(Tail(s))

RECURSIVE afterColon(_)
afterColon(s) ==
  IF Len(s) = 0 THEN <<>>
  ELSE IF s[1] = ":" THEN upToColon(Tail(s))
  ELSE afterColon(Tail(s))

\* the branch op === "const" of TermNode.toString
constToString(re, im) ==
  LET hasReal == GreaterPow10(AbsRat(re), 14)
      hasImag == GreaterPow10(AbsRat(im), 14)
  IN IF hasReal /\ hasImag /\ ~Less(im, Zero) /\ ~isNaN(im)
     THEN <<"(">> \o numberToString(re) \o <<"+">> \o numberToString(im)
          \o <<"i", ")">>
     ELSE IF hasReal /\ hasImag /\ Less(im, Zero)
     THEN <<"(">> \o numberToString(re) \o <<"-">> \o numberToString(Neg(im))
          \o <<"i", ")">>
     ELSE IF hasReal /\ Greater(re, Zero) THEN numberToString(re)
     ELSE IF hasReal /\ Less(re, Zero)
     THEN <<"(">> \o numberToString(re) \o <<")">>
     ELSE IF hasImag THEN <<"(">> \o numberToString(im) \o <<"i", ")">>
     ELSE <<"0">>

RECURSIVE toString(_)
RECURSIVE joinToString(_, _)

\* c.map((ci) => ci.toString()).join(op)
joinToString(c, op) ==
  IF Len(c) = 0 THEN <<>>
  ELSE IF Len(c) = 1 THEN toString(c[1])
  ELSE toString(c[1]) \o op \o joinToString(Tail(c), op)

\* TermNode.toString()
toString(node) ==
  IF node.op = OpConst THEN constToString(node.re, node.im)
  ELSE IF startsWith(node.op, <<"v", "a", "r">>) THEN afterColon(node.op)
  ELSE IF Len(node.c) = 1
  THEN (IF node.op = OpUnaryMinus THEN <<"-">> ELSE node.op)
       \o <<"(">> \o joinToString(node.c, <<",">>) \o <<")">>
  ELSE <<"(">> \o joinToString(node.c, node.op) \o <<")">>

(***************************************************************************)
(* Matrix                                                                  *)
(*                                                                         *)
(* A Matrix is the record of the fields m, n and v; v[k + 1] is the        *)
(* element k of the array this.v.  The number n is the rational <<p, q>>:  *)
(* fromString sets it to v.length / m, which need not be an integer.       *)
(***************************************************************************)
\* new Matrix(m, n)
newMatrix(m, n) ==
  [m |-> m, n |-> <<n, 1>>, v |-> [k \in 1..(m * n) |-> <<"0">>]]

NoMatrix == newMatrix(0, 0)

\* the value undefined, which is no string
Undefined == <<"undefined">>

\* v[index] for the number index
elementAt(v, index) ==
  IF index[2] = 1 /\ index[1] < Len(v) THEN v[index[1] + 1] ELSE Undefined

\* Matrix.getElement(i, j)
getElement(mat, i, j) ==
  IF i < 0 \/ i >= mat.m \/ j < 0 \/ ~Less(<<j, 1>>, mat.n) THEN <<>>
  ELSE elementAt(mat.v, Add(Mul(<<i, 1>>, mat.n), <<j, 1>>))

\* Matrix.fromMatrix(mat): the matrix after the call
fromMatrix(mat) == [m |-> mat.m, n |-> mat.n, v |-> mat.v]

\* Matrix.resize(m, n, initTerm): the matrix after the call and the value
\* returned
resize(mat, m, n, initTerm) ==
  IF m < 1 \/ m > 50 \/ n < 1 \/ n > 50
  THEN [matrix |-> mat, returned |-> FALSE]
  ELSE [matrix |-> fromMatrix(
                     [m |-> m, n |-> <<n, 1>>,
                      v |-> [k \in 1..(m * n) |->
                               getElement(mat, (k - 1) \div n, (k - 1) % n)]]),
        returned |-> TRUE]

\* s.split(separator): the pieces of s between the separators
RECURSIVE split(_, _, _)
split(s, separator, piece) ==
  IF Len(s) = 0 THEN <<piece>>
  ELSE IF startsWith(s, separator)
  THEN <<piece>> \o split(substring(s, Len(separator)), separator, <<>>)
  ELSE split(Tail(s), separator, Append(piece, Head(s)))

\* s.replaceAll(ch, "") for every ch of chars
RECURSIVE removeAll(_, _)
removeAll(s, chars) ==
  IF Len(s) = 0 THEN <<>>
  ELSE IF Head(s) \in chars THEN removeAll(Tail(s), chars)
  ELSE <<Head(s)>> \o removeAll(Tail(s), chars)

\* the white space and the line terminators of the language, which
\* String.prototype.trim removes: tab, line feed, vertical tab, form feed,
\* carriage return, the blank, the no-break space, the blanks of the
\* category Zs, the line and the paragraph separator and the byte order
\* mark.  A character that a string of the model cannot hold is written as
\* its escape sequence and is one character of the model.
TrimSpace ==
  WhiteSpace
  \cup {"\r", "\f", "\\v", "\\u00a0", "\\u1680", "\\u2000", "\\u2001",
        "\\u2002", "\\u2003", "\\u2004", "\\u2005", "\\u2006", "\\u2007",
        "\\u2008", "\\u2009", "\\u200a", "\\u2028", "\\u2029", "\\u202f",
        "\\u205f", "\\u3000", "\\ufeff"}

\* e.trim()
RECURSIVE trim(_)
trim(e) ==
  IF Len(e) = 0 THEN e
  ELSE IF Head(e) \in TrimSpace THEN trim(Tail(e))
  ELSE IF e[Len(e)] \in TrimSpace THEN trim(SubSeq(e, 1, Len(e) - 1))
  ELSE e

\* Matrix.fromString(s): the matrix after the call
fromString(s) ==
  LET m == Len(split(s, <<"]", ",">>, <<>>))
      e == split(removeAll(s, {"[", "]"}), <<",">>, <<>>)
      v == [k \in 1..Len(e) |-> trim(e[k])]
  IN [m |-> m, n |-> Rat(Len(v), m), v |-> v]

(***************************************************************************)
(* Term: variables                                                         *)
(***************************************************************************)
\* Term.clone(): [t, err], t being the term without the fields of the lexer,
\* or the TypeError of this.root.clone() for the root null
clone(t) ==
  IF t.root = NoNode THEN [t |-> t, err |-> TypeError]
  ELSE [t |-> [newTerm(<<>>) EXCEPT !.root = t.root], err |-> ""]

isVarNode(node) == startsWith(node.op, OpVar)
varId(node) == substring(node.op, 4)

RECURSIVE getVars(_, _, _)
RECURSIVE getVarsOfAll(_, _, _)

\* Term.getVars(s, prefix, node); the Set s is the sequence of its elements
\* in the order of their insertion.  node = NoNode is the root null of a
\* term that was not parsed: node.op throws.
getVars(s, prefix, node) ==
  IF node = NoNode THEN TypeError ELSE
  LET s1 == IF /\ isVarNode(node)
               /\ (Len(prefix) = 0 \/ startsWith(varId(node), prefix))
               /\ \A k \in 1..Len(s) : s[k] # varId(node)
            THEN Append(s, varId(node)) ELSE s
  IN getVarsOfAll(s1, prefix, node.c)

getVarsOfAll(s, prefix, c) ==
  IF Len(c) = 0 THEN s
  ELSE getVarsOfAll(getVars(s, prefix, c[1]), prefix, Tail(c))

\* Term.setVars(dict, node); dict is a function from identifiers to nodes
RECURSIVE setVars(_, _)
setVars(dict, node) ==
  IF node = NoNode THEN TypeError ELSE
  LET c == [k \in 1..Len(node.c) |-> setVars(dict, node.c[k])]
  IN IF isVarNode(node) /\ varId(node) \in DOMAIN dict
     THEN LET x == dict[varId(node)]
          IN [node EXCEPT !.op = x.op, !.c = x.c, !.re = x.re, !.im = x.im]
     ELSE [node EXCEPT !.c = c]

\* Term.renameVar(oldName, newName, node)
RECURSIVE renameVar(_, _, _)
renameVar(oldName, newName, node) ==
  IF node = NoNode THEN TypeError ELSE
  LET c == [k \in 1..Len(node.c) |-> renameVar(oldName, newName, node.c[k])]
  IN IF isVarNode(node) /\ varId(node) = oldName
     THEN [node EXCEPT !.c = c, !.op = OpVar \o newName]
     ELSE [node EXCEPT !.c = c]

(***************************************************************************)
(* Term.eval                                                               *)
(*                                                                         *)
(* The code computes with IEEE doubles, the model with rationals and       *)
(* square roots of rationals.  evalWithin(dict, node) is the record of     *)
(* res, the value that the exact arithmetic gives, and of the distance of  *)
(* the code's value from res:                                              *)
(*   p = "exact":   the code's value is res;                               *)
(*   p = "rounded": each part of the code's value is the double nearest    *)
(*                  to the part of res;                                    *)
(*   p = "within":  each part of the code's value differs from the part    *)
(*                  of res by at most 2^e;                                 *)
(*   p = "lost":    the model does not know the code's value.              *)
(* Unless p = "lost", a part of res is NaN exactly when the part of the    *)
(* code's value is NaN.  The bounds follow the roundings of the code's     *)
(* operations: one rounding of at most 2^-53 of the result for + - * / and *)
(* Math.sqrt, a few units in the last place for Math.log, Math.atan2,      *)
(* Math.exp, Math.cos and Math.sin.  Values are lost in a quotient whose   *)
(* divisor is not known to differ from 0, in a power whose exponent is no  *)
(* exact integer, in pi and e, and in the functions that the model does    *)
(* not compute.  eval(dict, node) is res where the distance is below the   *)
(* EPS of compare, and has no value elsewhere.                             *)
(***************************************************************************)
\* the exponent that stands for the number 0
Least == -(2 ^ 12)

Max(a, b) == IF a >= b THEN a ELSE b
Max3(a, b, c) == Max(a, Max(b, c))
Max4(a, b, c, d) == Max(Max(a, b), Max(c, d))

\* the number of binary digits of n >= 0
RECURSIVE bitlen(_)
bitlen(n) == IF n = 0 THEN 0 ELSE 1 + bitlen(n \div 2)

\* floor(log2(n / d)) for n, d >= 1 from k = bitlen(n) - bitlen(d)
ilog(n, d, k) ==
  IF (IF k >= 0 THEN n >= d * 2 ^ k ELSE n * 2 ^ (-k) >= d) THEN k ELSE k - 1

\* the exponent k of the number x, 2^k <= |x| < 2^(k + 1); Least for 0 and
\* for a number that is not finite
exponent(x) ==
  IF ~isFinite(x) \/ x[1] = 0 THEN Least
  ELSE IF isSurd(x)
  THEN ilog(AbsInt(x[1]), x[2], bitlen(AbsInt(x[1])) - bitlen(x[2])) \div 2
  ELSE ilog(AbsInt(x[1]), x[2], bitlen(AbsInt(x[1])) - bitlen(x[2]))

\* both parts of u are below 2^hiOf(u), and one is at least 2^loOf(u)
loOf(u) == Max(exponent(u.re), exponent(u.im))
hiOf(u) == loOf(u) + 1

\* a double holds the rational x: its denominator is a power of 2 (the
\* numerators of the model are below 2^31)
dyadic(x) == ~isSurd(x) /\ (~isFinite(x) \/ x[2] = 2 ^ (bitlen(x[2]) - 1))

hasNaN(u) == isNaN(u.re) \/ isNaN(u.im)
isZero(u) == u.re = Zero /\ u.im = Zero

\* 2^Tolerance < EPS = 1e-9
Tolerance == -bitlen(Pow10(CompareEpsDigits))

\* the value of a term that the model does not know
Unknown == const(NaN, NaN)
Lost == [res |-> Unknown, p |-> "lost", e |-> 0]

exactly(res) == [res |-> res, p |-> "exact", e |-> Least]
roundedTo(res) == [res |-> res, p |-> "rounded", e |-> Least]
within(res, e) == [res |-> res, p |-> "within", e |-> e]

\* the exponent of the bound of w
err(w) ==
  CASE w.p = "exact" -> Least
    [] w.p = "rounded" -> hiOf(w.res) - 53
    [] w.p = "within" -> w.e

known(u, v) == u.p # "lost" /\ v.p # "lost"
exact(u, v) == u.p = "exact" /\ v.p = "exact"

\* case "const", and a value of dict: the double of a number literal
constWithin(node) ==
  IF isSurd(node.re) \/ isSurd(node.im) THEN Lost
  ELSE IF dyadic(node.re) /\ dyadic(node.im) THEN exactly(node)
  ELSE roundedTo(node)

\* cases "+" and "-": the bounds of the operands and the rounding of res
added(u, v, res) ==
  IF ~known(u, v) THEN Lost
  ELSE IF exact(u, v) THEN exactly(res)
  ELSE within(res, Max3(err(u), err(v), hiOf(res) - 53) + 2)

\* the bound of u.re * v.re - u.im * v.im and of the like sums of products
productErr(u, v) ==
  Max4(hiOf(u.res) + err(v), hiOf(v.res) + err(u), err(u) + err(v),
       hiOf(u.res) + hiOf(v.res) - 52) + 4

\* case "*"
complexMul(u, v) ==
  const(Sub(Mul(u.re, v.re), Mul(u.im, v.im)),
        Add(Mul(u.re, v.im), Mul(u.im, v.re)))

multiplied(u, v, res) ==
  IF ~known(u, v) THEN Lost
  ELSE IF exact(u, v) THEN exactly(res)
  ELSE within(res, productErr(u, v))

\* case "/"
complexDiv(u, v) ==
  LET t1 == Add(Mul(v.re, v.re), Mul(v.im, v.im))
  IN const(Div(Add(Mul(u.re, v.re), Mul(u.im, v.im)), t1),
           Div(Sub(Mul(u.im, v.re), Mul(u.re, v.im)), t1))

\* the bound of t1 = v.re * v.re + v.im * v.im
divisorErr(v) ==
  IF v.p = "exact" THEN Least
  ELSE Max3(hiOf(v.res) + err(v), 2 * err(v), 2 * hiOf(v.res) - 52) + 4

\* the quotient of a sum of products below 2^hn with the bound 2^en by t1,
\* which is at least 2^lt and has the bound 2^et
overWithin(res, en, et, lt, hn) ==
  IF et > lt - 2 THEN Lost
  ELSE within(res, Max3(en - lt, hn + et - 2 * lt, hn - lt - 53) + 3)

divided(u, v, res) ==
  IF ~known(u, v) THEN Lost
  ELSE IF exact(u, v)
  THEN IF dyadic(res.re) /\ dyadic(res.im) THEN exactly(res)
       ELSE roundedTo(res)
  ELSE IF hasNaN(u.res) \/ hasNaN(v.res) THEN within(res, Least)
  ELSE IF isZero(v.res) THEN Lost
  ELSE overWithin(res, productErr(u, v), divisorErr(v), 2 * loOf(v.res),
                  hiOf(u.res) + hiOf(v.res) + 1)

RECURSIVE complexPower(_, _)
complexPower(u, n) ==
  IF n = 0 THEN const(One, Zero) ELSE complexMul(complexPower(u, n - 1), u)

isIntegerNode(v) ==
  v.im = Zero /\ ~isSurd(v.re) /\ isFinite(v.re) /\ v.re[2] = 1

\* case "^": exp(v * ln(u)) for an integer v.  ln(u) has the real part
\* -Infinity for u = 0 and an infinite or NaN part for a u that is not
\* finite; the product with v and exp turn these into NaN.
power(u, v) ==
  IF \/ ~isFinite(u.re) \/ ~isFinite(u.im)
     \/ (u.re = Zero /\ u.im = Zero)
  THEN const(NaN, NaN)
  ELSE IF v.re[1] >= 0 THEN complexPower(u, v.re[1])
  ELSE complexDiv(const(One, Zero), complexPower(u, -v.re[1]))

\* case "ln": `t1 = Math.abs(u.im) < EPS ? 0 : u.im` takes the same branch
\* for the code's u.im as for the model's
sameBranch(u) ==
  /\ err(u) <= Tolerance - 4
  /\ u.res.im = Zero \/ GreaterPow10(AbsRat(u.res.im), CompareEpsDigits - 1)

\* the power res with the relative bound 2^rel
raisedWithin(res, rel) ==
  IF rel > -4 THEN Lost ELSE within(res, hiOf(res) + 1 + rel)

\* u^n for the integer n: the bound of u, taken n times relative to u, and
\* the roundings of ln, of the product with n and of exp
raised(u, n, res) ==
  IF hasNaN(u.res)
  THEN IF u.p = "exact" THEN exactly(res) ELSE within(res, Least)
  ELSE IF isZero(u.res)
  THEN IF u.p = "exact" THEN exactly(res) ELSE Lost
  ELSE IF err(u) > loOf(u.res) - 3 \/ ~sameBranch(u) THEN Lost
  ELSE raisedWithin(res,
         Max(bitlen(n) + err(u) - loOf(u.res) + 3,
             bitlen(n * (Max(AbsInt(hiOf(u.res) + 1), AbsInt(loOf(u.res))) + 5) + 1)
               - 50) + 1)

\* case "^" on the values of the operands
powerOf(u, v) ==
  IF ~known(u, v) \/ v.p # "exact" \/ ~isIntegerNode(v.res) THEN Lost
  ELSE raised(u, AbsInt(v.res.re[1]), power(u.res, v.res))

\* case "abs": Math.sqrt(u.re * u.re + u.im * u.im)
modulus(u, res) ==
  IF u.p = "lost" THEN Lost
  ELSE IF u.p = "exact"
  THEN IF isSurd(res.re) THEN roundedTo(res) ELSE exactly(res)
  ELSE within(res, Max(err(u) + 1, hiOf(res) - 51) + 1)

\* case ".-"
negated(u) ==
  IF u.p = "lost" THEN Lost
  ELSE [u EXCEPT !.res = const(Neg(u.res.re), Neg(u.res.im))]

ReservedValue(id) ==
  CASE id = <<"i">> -> const(Zero, One)
    [] id = <<"t", "r", "u", "e">> -> const(One, Zero)
    [] id = <<"f", "a", "l", "s", "e">> -> const(Zero, Zero)

Reserved == {<<"i">>, <<"t", "r", "u", "e">>, <<"f", "a", "l", "s", "e">>}
Transcendental == {<<"p", "i">>, <<"e">>}

\* Term.eval(dict, node) for a node: the value and its bound
RECURSIVE evalWithin(_, _)
evalWithin(dict, node) ==
  CASE node.op = OpConst -> constWithin(node)
    [] node.op = <<"+">> ->
         LET u == evalWithin(dict, node.c[1])
             v == evalWithin(dict, node.c[2])
         IN added(u, v, const(Add(u.res.re, v.res.re), Add(u.res.im, v.res.im)))
    [] node.op = <<"-">> ->
         LET u == evalWithin(dict, node.c[1])
             v == evalWithin(dict, node.c[2])
         IN added(u, v, const(Sub(u.res.re, v.res.re), Sub(u.res.im, v.res.im)))
    [] node.op = <<"*">> ->
         LET u == evalWithin(dict, node.c[1])
             v == evalWithin(dict, node.c[2])
         IN multiplied(u, v, complexMul(u.res, v.res))
    [] node.op = <<"/">> ->
         LET u == evalWithin(dict, node.c[1])
             v == evalWithin(dict, node.c[2])
         IN divided(u, v, complexDiv(u.res, v.res))
    [] node.op = <<"^">> ->
         powerOf(evalWithin(dict, node.c[1]), evalWithin(dict, node.c[2]))
    [] node.op = OpUnaryMinus -> negated(evalWithin(dict, node.c[1]))
    [] node.op = OpAbs ->
         LET u == evalWithin(dict, node.c[1])
         IN modulus(u, const(Sqrt(Add(Mul(u.res.re, u.res.re),
                                      Mul(u.res.im, u.res.im))), Zero))
    [] isVarNode(node) /\ varId(node) \in Reserved ->
         exactly(ReservedValue(varId(node)))
    [] /\ isVarNode(node) /\ varId(node) \notin Reserved \cup Transcendental
       /\ varId(node) \in DOMAIN dict -> constWithin(dict[varId(node)])
    [] OTHER -> Lost

\* the value of w where its bound is below EPS
valueOf(w) == CASE w.p # "lost" /\ err(w) <= Tolerance -> w.res

\* Term.eval(dict, node)
eval(dict, node) ==
  IF node = NoNode THEN TypeError ELSE valueOf(evalWithin(dict, node))

\* Math.PI and Math.E: the numerators and denominators of these doubles are
\* above 2^31; the model holds for each the nearest rational with a
\* numerator below 2^31, which is less than 2^-58 away and has the double
\* as its nearest double
MathPI == Rat(1881244168, 598818617)
MathE == Rat(1032595833, 379870778)

\* a variant of evalDefault that looks into dict first
evalDictFirst(dict, node) ==
  IF isVarNode(node) /\ varId(node) \in DOMAIN dict
  THEN [node |-> dict[varId(node)], err |-> ""]
  ELSE [node |-> NoNode, err |-> "eval-error: unknown variable"]

\* the default case of the switch of Term.eval: the value returned, or the
\* error thrown
evalDefault(dict, node) ==
  IF isVarNode(node)
  THEN IF varId(node) = <<"p", "i">>
       THEN [node |-> const(MathPI, Zero), err |-> ""]
       ELSE IF varId(node) = <<"e">>
       THEN [node |-> const(MathE, Zero), err |-> ""]
       ELSE IF varId(node) = <<"i">>
       THEN [node |-> const(Zero, One), err |-> ""]
       ELSE IF varId(node) = <<"t", "r", "u", "e">>
       THEN [node |-> const(One, Zero), err |-> ""]
       ELSE IF varId(node) = <<"f", "a", "l", "s", "e">>
       THEN [node |-> const(Zero, Zero), err |-> ""]
       ELSE IF varId(node) \in DOMAIN dict
       THEN [node |-> dict[varId(node)], err |-> ""]
       ELSE [node |-> NoNode, err |-> "eval-error: unknown variable"]
  ELSE [node |-> NoNode, err |-> "UNIMPLEMENTED eval"]

\* the labels of the cases of unary operations in the switch of Term.eval
EvalUnaryCasesWithoutTan ==
  {<<".","-">>, <<"a","b","s">>, <<"a","c","o","s">>,
   <<"a","c","o","s","h">>, <<"a","s","i","n">>, <<"a","s","i","n","h">>,
   <<"a","t","a","n">>, <<"a","t","a","n","h">>, <<"c","e","i","l">>,
   <<"c","o","s">>, <<"c","o","s","h">>, <<"c","o","t">>, <<"e","x","p">>,
   <<"f","l","o","o","r">>, <<"l","n">>, <<"l","o","g">>,
   <<"l","o","g","1","0">>, <<"l","o","g","2">>, <<"r","o","u","n","d">>,
   <<"s","i","n">>, <<"s","i","n","c">>, <<"s","i","n","h">>,
   <<"s","q","r","t">>, <<"t","a","n","h">>}

EvalUnaryCases ==
  {<<".","-">>, <<"a","b","s">>, <<"a","c","o","s">>,
   <<"a","c","o","s","h">>, <<"a","s","i","n">>, <<"a","s","i","n","h">>,
   <<"a","t","a","n">>, <<"a","t","a","n","h">>, <<"c","e","i","l">>,
   <<"c","o","s">>, <<"c","o","s","h">>, <<"c","o","t">>, <<"e","x","p">>,
   <<"f","l","o","o","r">>, <<"l","n">>, <<"l","o","g">>,
   <<"l","o","g","1","0">>, <<"l","o","g","2">>, <<"r","o","u","n","d">>,
   <<"s","i","n">>, <<"s","i","n","c">>, <<"s","i","n","h">>,
   <<"s","q","r","t">>, <<"t","a","n">>, <<"t","a","n","h">>}

\* the operators of the term that the case of op builds and evaluates
EvalBuilds(op) ==
  CASE op = <<"^">> ->
         {<<"*">>, <<"e","x","p">>, <<"l","n">>}
    [] op = <<"a","c","o","s">> ->
         {<<"*">>, <<"+">>, <<"-">>, <<"l","n">>, <<"s","q","r","t">>}
    [] op = <<"a","c","o","s","h">> ->
         {<<"*">>, <<"-">>, <<"s","q","r","t">>}
    [] op = <<"a","s","i","n">> ->
         {<<"*">>, <<"+">>, <<"-">>, <<"l","n">>, <<"s","q","r","t">>}
    [] op = <<"a","s","i","n","h">> ->
         {<<"*">>, <<"+">>, <<"s","q","r","t">>}
    [] op = <<"a","t","a","n">> ->
         {<<"*">>, <<"+">>, <<"-">>, <<"/">>, <<"l","n">>}
    [] op = <<"a","t","a","n","h">> ->
         {<<"*">>, <<"+">>, <<"-">>, <<"/">>, <<"l","n">>}
    [] op = <<"c","o","s","h">> ->
         {<<"*">>, <<"+">>, <<".","-">>, <<"e","x","p">>}
    [] op = <<"l","o","g","1","0">> ->
         {<<"/">>, <<"l","n">>}
    [] op = <<"l","o","g","2">> ->
         {<<"/">>, <<"l","n">>}
    [] op = <<"s","i","n","c">> ->
         {<<"/">>, <<"s","i","n">>}
    [] op = <<"s","i","n","h">> ->
         {<<"*">>, <<"-">>, <<".","-">>, <<"e","x","p">>}
    [] op = <<"s","q","r","t">> ->
         {<<"^">>}
    [] op = <<"t","a","n","h">> ->
         {<<"+">>, <<"-">>, <<".","-">>, <<"/">>, <<"e","x","p">>}
    [] OTHER -> {}

\* new TermNode(op, c)
apply(op, c) == TermNode(op, c, Zero, Zero)

\* the term tn that the case of an inverse function in eval builds from the
\* value u of the operand, and then evaluates
inverseTerm(op, u) ==
  LET i == const(Zero, One)
      one == const(One, Zero)
      times(a, b) == apply(<<"*">>, <<a, b>>)
      plus(a, b) == apply(<<"+">>, <<a, b>>)
      minus(a, b) == apply(<<"-">>, <<a, b>>)
      over(a, b) == apply(<<"/">>, <<a, b>>)
      ln(a) == apply(<<"l", "n">>, <<a>>)
      sqrt(a) == apply(<<"s", "q", "r", "t">>, <<a>>)
  IN CASE op = <<"a", "c", "o", "s">> ->
            times(const(Zero, Neg(One)),
                  ln(plus(i, sqrt(minus(one, times(u, u))))))
       [] op = <<"a", "c", "o", "s", "h">> ->
            times(u, sqrt(minus(times(u, u), one)))
       [] op = <<"a", "s", "i", "n">> ->
            times(const(Zero, Neg(One)),
                  ln(plus(times(i, u), sqrt(minus(one, times(u, u))))))
       [] op = <<"a", "s", "i", "n", "h">> ->
            times(u, sqrt(plus(times(u, u), one)))
       [] op = <<"a", "t", "a", "n">> ->
            times(const(Zero, Rat(1, 2)),
                  ln(over(minus(i, times(i, u)), plus(i, times(i, u)))))
       [] op = <<"a", "t", "a", "n", "h">> ->
            times(const(Rat(1, 2), Zero),
                  ln(over(plus(one, u), minus(one, u))))

\* eval has a case for op and for every operator that the case leads to
RECURSIVE implemented(_)
implemented(op) ==
  /\ op = OpConst \/ op \in BinaryOps \/ op \in EvalUnaryCases
  /\ \A b \in EvalBuilds(op) : implemented(b)

\* the error that Term.eval(dict, node) throws, "" when it returns
RECURSIVE thrown(_, _)
thrown(dict, node) ==
  IF node.op = OpConst THEN ""
  ELSE IF node.op \in BinaryOps
  THEN IF thrown(dict, node.c[1]) # "" THEN thrown(dict, node.c[1])
       ELSE IF thrown(dict, node.c[2]) # "" THEN thrown(dict, node.c[2])
       ELSE IF implemented(node.op) THEN "" ELSE "UNIMPLEMENTED eval"
  ELSE IF node.op \in EvalUnaryCases
  THEN IF thrown(dict, node.c[1]) # "" THEN thrown(dict, node.c[1])
       ELSE IF implemented(node.op) THEN "" ELSE "UNIMPLEMENTED eval"
  ELSE evalDefault(dict, node).err

(***************************************************************************)
(* Term.compare                                                            *)
(*                                                                         *)
(* The activation of compare is the record of its parameters and locals:   *)
(* tu, tv (the roots), predefinedContext, vars, the loop counter i, the    *)
(* context and the results r1, r2 and abs of the last pass, and the value  *)
(* returned ("running" before the return).  The field within counts the    *)
(* passes whose abs was at most EPS; the code keeps no such count.  Where  *)
(* the model has no value for a term, the pass has each of the ends that   *)
(* the code can give it, and r1, r2 and abs are NotKnown.                  *)
(***************************************************************************)
\* the values that the model draws for Math.random(): 1/2, 1/4, ...,
\* which the code's floating-point numbers hold exactly
RandomValues == {Rat(1, 2 ^ k) : k \in 1..(RandomSteps - 1)}

Elements(s) == {s[k] : k \in 1..Len(s)}

\* the tree of a node without the flags explicitParentheses
RECURSIVE structure(_)
structure(node) ==
  [op |-> node.op, re |-> node.re, im |-> node.im,
   c |-> [k \in 1..Len(node.c) |-> structure(node.c[k])]]

\* the state of compare(tu, tv, predefinedContext) before the first pass
compareStart(tu, tv, predefinedContext) ==
  [tu |-> tu, tv |-> tv, predefinedContext |-> predefinedContext,
   vars |-> getVars(getVars(<<>>, <<>>, tu), <<>>, tv),
   i |-> 0, context |-> <<>>, r1 |-> NoNode, r2 |-> NoNode, abs |-> Zero,
   within |-> 0, result |-> "running"]

\* the variables of a pass that get a random value
freeVars(c) == Elements(c.vars) \ DOMAIN c.predefinedContext

\* the context of a pass; draw[v] is the pair of random numbers for v
contextOf(c, draw) ==
  [v \in Elements(c.vars) |->
     IF v \in DOMAIN c.predefinedContext THEN c.predefinedContext[v]
     ELSE const(draw[v][1], draw[v][2])]

\* Math.sqrt(dre * dre + dim * dim)
distance(dre, dim) == Sqrt(Add(Mul(dre, dre), Mul(dim, dim)))

\* the exponent of the bound of abs: the bounds of r1 and r2 and the
\* roundings of the differences, of the squares and of Math.sqrt
absErr(w1, w2, abs) == Max3(err(w1), err(w2), exponent(abs) - 50) + 3

\* abs > EPS in the code: "true" or "false" where the values w1 and w2 of
\* the model decide it, "unknown" elsewhere.  The exact values decide it
\* alone; values with a bound decide it when abs is above 10 * EPS, or 0,
\* or below EPS / 10 with a bound that small.
exceeds(w1, w2, abs) ==
  IF ~known(w1, w2) THEN "unknown"
  ELSE IF err(w1) > Tolerance \/ err(w2) > Tolerance THEN "unknown"
  ELSE IF isNaN(abs) THEN "false"
  ELSE IF exact(w1, w2)
  THEN IF GreaterPow10(abs, CompareEpsDigits) THEN "true" ELSE "false"
  ELSE IF GreaterPow10(abs, CompareEpsDigits - 1) THEN "true"
  ELSE IF abs = Zero /\ absErr(w1, w2, abs) <= Tolerance THEN "false"
  ELSE IF /\ ~GreaterPow10(abs, CompareEpsDigits + 1)
          /\ absErr(w1, w2, abs) <= Tolerance - 1 THEN "false"
  ELSE "unknown"

\* if (abs > EPS) return false, and the end of the pass otherwise; the
\* result of the pass is "unknown" where the model does not decide abs > EPS
trialEnd(c, context, r1, r2, abs, exceeding) ==
  IF exceeding = "unknown" THEN [c EXCEPT !.result = "unknown"]
  ELSE [c EXCEPT !.context = context, !.r1 = r1, !.r2 = r2, !.abs = abs,
                 !.within = IF isFinite(abs) /\ exceeding = "false"
                            THEN @ + 1 ELSE @,
                 !.i = IF exceeding = "true" THEN @ ELSE @ + 1,
                 !.result = IF exceeding = "true" THEN "false"
                            ELSE IF c.i + 1 >= NUM_TESTS THEN "true"
                            ELSE "running"]

\* the pass from abs
trialFrom(c, context, w1, w2, abs) ==
  trialEnd(c, context, w1.res, w2.res, abs, exceeds(w1, w2, abs))

\* the pass from the values w1 and w2 of the two terms
trialOf(c, context, w1, w2) ==
  trialFrom(c, context, w1, w2,
            distance(Sub(w1.res.re, w2.res.re), Sub(w1.res.im, w2.res.im)))

\* the pass under the context, with the result "unknown" where the model
\* does not follow the code
trialWithin(c, context) ==
  trialOf(c, context, evalWithin(context, c.tu), evalWithin(context, c.tv))

\* the pass t where the model follows the code
decided(t) == CASE t.result # "unknown" -> t

\* one pass of the loop of compare under the context
compareTrial(c, context) == decided(trialWithin(c, context))

\* r1, r2 or abs of a pass whose values the model does not know
NotKnown == [known |-> FALSE]

\* the end of a pass with an abs that is not above EPS, a number or NaN,
\* for values of the terms that the model does not know
passedWith(c, context, abs, isNumber) ==
  [c EXCEPT !.context = context, !.r1 = NotKnown, !.r2 = NotKnown,
            !.abs = abs,
            !.within = IF isNumber THEN @ + 1 ELSE @,
            !.i = @ + 1,
            !.result = IF c.i + 1 >= NUM_TESTS THEN "true" ELSE "running"]

\* the end of a pass with `return false`, for values that the model does
\* not know
failedWith(c, context) ==
  [c EXCEPT !.context = context, !.r1 = NotKnown, !.r2 = NotKnown,
            !.abs = NotKnown, !.result = "false"]

\* the end of a pass in which eval throws: compare returns no value
thrownIn(c, context) == [c EXCEPT !.context = context, !.result = "thrown"]

\* the ends that a pass can have where the model does not decide abs > EPS.
\* eval is a function of the tree and of the context: two terms of the
\* same structure have the same value, so that dre and dim are 0, or NaN
\* for a part that is not finite, and abs is 0 or NaN.  For two other
\* terms the pass ends in any of the ways that the code has.
undecided(c, context) ==
  IF thrown(context, c.tu) # "" \/ thrown(context, c.tv) # ""
  THEN {thrownIn(c, context)}
  ELSE IF structure(c.tu) = structure(c.tv)
  THEN {passedWith(c, context, Zero, TRUE), passedWith(c, context, NaN, FALSE)}
  ELSE {passedWith(c, context, NotKnown, TRUE),
        passedWith(c, context, NaN, FALSE), failedWith(c, context)}

\* the ends of one pass of the loop of compare under the context: the one
\* that the model computes, or those of a pass that it does not decide
trials(c, context) ==
  IF trialWithin(c, context).result # "unknown"
  THEN {compareTrial(c, context)}
  ELSE undecided(c, context)

(***************************************************************************)
(* range, heapsAlgorithm                                                   *)
(***************************************************************************)
\* range(n)
range(n) == [k \in 1..n |-> k - 1]

\* heapsAlgorithm(list, result, k): [list, result] after the call
RECURSIVE heapsAlgorithm(_, _, _)
RECURSIVE heapsLoop(_, _, _, _)

heapsAlgorithm(list, result, k0) ==
  LET k == IF k0 < 0 THEN Len(list) ELSE k0
  IN IF k = 1 THEN [list |-> list, result |-> Append(result, list)]
     ELSE heapsLoop(list, result, k, 0)

heapsLoop(list, result, k, i) ==
  IF i >= k THEN [list |-> list, result |-> result]
  ELSE LET r == heapsAlgorithm(list, result, k - 1)
           j == IF k % 2 = 0 THEN i ELSE 0
           swapped == [r.list EXCEPT ![j + 1] = r.list[k], ![k] = r.list[j + 1]]
       IN heapsLoop(swapped, r.result, k, i + 1)

\* a variant of swapIndex that always takes the first element
swapIndexFirst(k, i) == 0

\* let j = k % 2 == 0 ? i : 0
swapIndex(k, i) == IF k % 2 = 0 THEN i ELSE 0

\* heapsAlgorithm step by step.  The activation is the record of list,
\* result and the stack of the frames of the calls, the running one first;
\* a frame holds k, i and whether it is before a pass of its loop ("loop",
\* at first) or waits for the call of the pass ("call").
heapsStart(list, result, k0) ==
  [list |-> list, result |-> result,
   stack |-> <<[k |-> IF k0 < 0 THEN Len(list) ELSE k0, i |-> 0, in |-> "loop"]>>]

\* if (k == 1) { result.push([...list]); return; }
heapsPush(a) ==
  [a EXCEPT !.result = Append(@, a.list), !.stack = Tail(@)]

\* heapsAlgorithm(list, result, k - 1) in a pass of the loop
heapsCall(a) ==
  [a EXCEPT !.stack = <<[k |-> a.stack[1].k - 1, i |-> 0, in |-> "loop"]>>
                        \o <<[a.stack[1] EXCEPT !.in = "call"]>> \o Tail(@)]

\* the rest of a pass of the loop: the exchange of list[j] and list[k - 1]
heapsSwap(a) ==
  LET k == a.stack[1].k
      j == swapIndex(k, a.stack[1].i)
  IN [a EXCEPT !.list = [@ EXCEPT ![j + 1] = a.list[k], ![k] = a.list[j + 1]],
               !.stack = <<[a.stack[1] EXCEPT !.i = @ + 1, !.in = "loop"]>>
                           \o Tail(@)]

\* the return at the end of the loop
heapsReturn(a) == [a EXCEPT !.stack = Tail(@)]

(***************************************************************************)
(* math_ODE.js: prepareODEconstantComparison, minimize                     *)
(***************************************************************************)
isConstVar(op) == startsWith(op, OpVar \o <<"C">>)

PreparedUnaryOps ==
  {OpUnaryMinus, OpAbs, <<"s","i","n">>, <<"s","i","n","c">>, <<"c","o","s">>,
   <<"t","a","n">>, <<"c","o","t">>, OpExp, OpLn, <<"l","o","g">>,
   <<"s","q","r","t">>}

RECURSIVE prepareODEconstantComparison(_)

\* a variant of prepareODEconstantComparison that leaves the operands at a
\* unary node that it turns into a constant variable
prepareKeepingOperands(node) ==
  LET c == [k \in 1..Len(node.c) |-> prepareODEconstantComparison(node.c[k])]
  IN IF node.op \in PreparedUnaryOps /\ isConstVar(c[1].op)
     THEN [node EXCEPT !.op = c[1].op, !.c = c]
     ELSE [node EXCEPT !.c = c]

\* a variant of prepareODEconstantComparison that looks at a node before it
\* has prepared the operands
prepareTopDown(node) ==
  LET c == [k \in 1..Len(node.c) |-> prepareODEconstantComparison(node.c[k])]
      n == [node EXCEPT !.c = c]
      o == node.c
  IN IF node.op \in BinaryOps
     THEN IF isConstVar(o[1].op) /\ o[2].op = OpConst
          THEN [n EXCEPT !.op = o[1].op, !.c = <<>>]
          ELSE IF isConstVar(o[2].op) /\ o[1].op = OpConst
          THEN [n EXCEPT !.op = o[2].op, !.c = <<>>]
          ELSE IF isConstVar(o[1].op) /\ isConstVar(o[2].op) /\ o[1].op = o[2].op
          THEN [n EXCEPT !.op = o[1].op, !.c = <<>>]
          ELSE n
     ELSE IF node.op \in PreparedUnaryOps /\ isConstVar(o[1].op)
     THEN [n EXCEPT !.op = o[1].op, !.c = <<>>]
     ELSE n

\* prepareODEconstantComparison(node): the node after the call
prepareODEconstantComparison(node) ==
  LET c == [k \in 1..Len(node.c) |-> prepareODEconstantComparison(node.c[k])]
      n == [node EXCEPT !.c = c]
  IN IF node.op \in BinaryOps
     THEN IF isConstVar(c[1].op) /\ c[2].op = OpConst
          THEN [n EXCEPT !.op = c[1].op, !.c = <<>>]
          ELSE IF isConstVar(c[2].op) /\ c[1].op = OpConst
          THEN [n EXCEPT !.op = c[2].op, !.c = <<>>]
          ELSE IF isConstVar(c[1].op) /\ isConstVar(c[2].op) /\ c[1].op = c[2].op
          THEN [n EXCEPT !.op = c[1].op, !.c = <<>>]
          ELSE n
     ELSE IF node.op \in PreparedUnaryOps /\ isConstVar(c[1].op)
     THEN [n EXCEPT !.op = c[1].op, !.c = <<>>]
     ELSE n

\* term.eval(vars) with vars[dvId] = x: the value and its bound
objectiveWithin(term, dvId, vars, x) ==
  evalWithin((dvId :> const(x, Zero)) @@ vars, term.root)

\* term.eval(vars).re with vars[dvId] = x
objective(term, dvId, vars, x) ==
  eval((dvId :> const(x, Zero)) @@ vars, term.root).re

\* the exponent of a lower bound of |x - y|; a square root is compared by
\* the squares, |x - y| = |x^2 - y^2| / (x + y) for x, y >= 0
gap(x, y) ==
  IF isSurd(x) \/ isSurd(y)
  THEN IF Sign(x) < 0 \/ Sign(y) < 0 THEN Least
       ELSE exponent(Sub(Squared(x), Squared(y)))
              - Max(exponent(x), exponent(y)) - 2
  ELSE exponent(Sub(x, y))

\* a.re < b.re in the code for the values a and b of the model: "true" or
\* "false" where the model decides it, "unknown" elsewhere.  A comparison
\* with NaN is false; equal values of the model are equal in the code when
\* both are exact or rounded; different values are in the same order in the
\* code when they are further apart than their bounds.
lessThan(a, b) ==
  IF \/ a.p # "lost" /\ isNaN(a.res.re)
     \/ b.p # "lost" /\ isNaN(b.res.re) THEN "false"
  ELSE IF ~known(a, b) THEN "unknown"
  ELSE IF a.p # "within" /\ b.p # "within" /\ a.res.re = b.res.re THEN "false"
  ELSE IF gap(a.res.re, b.res.re) >= Max(err(a), err(b)) + 2
  THEN IF Less(a.res.re, b.res.re) THEN "true" ELSE "false"
  ELSE "unknown"

\* the number of binary digits of 10^k, computed in the 32-bit integers
RECURSIVE bitsPow10(_)
bitsPow10(k) ==
  IF k <= 9 THEN bitlen(Pow10(k)) ELSE bitlen(Pow10(9)) + bitsPow10(k - 9)

\* y < EPS in the code for the value y of the model: "true", "false" or
\* "unknown".  A value of at least 10 EPS with a bound of a quarter of it
\* is not below EPS in the code; a value below EPS / 10 with a bound below
\* EPS / 2 is.
belowEps(y) ==
  IF y.p = "lost" THEN "unknown"
  ELSE IF isNaN(y.res.re) THEN "false"
  ELSE IF y.p # "within"
  THEN IF LessPow10(y.res.re, MinimizeEpsDigits) THEN "true" ELSE "false"
  ELSE IF /\ ~LessPow10(y.res.re, MinimizeEpsDigits - 1)
             /\ err(y) <= exponent(y.res.re) - 2 THEN "false"
  ELSE IF /\ LessPow10(y.res.re, MinimizeEpsDigits + 1)
             /\ err(y) <= -bitsPow10(MinimizeEpsDigits) THEN "true"
  ELSE "unknown"

\* y after `if (yRight < y) y = yRight`
lower(y, yRight) == IF lessThan(yRight, y) = "true" THEN yRight ELSE y

\* the model decides both comparisons of a pass
comparable(y, yRight, yLeft) ==
  /\ lessThan(yRight, y) # "unknown"
  /\ lessThan(yLeft, lower(y, yRight)) # "unknown"

\* a variant of directionOf that goes to the right whenever the term has a
\* value there
directionRight(y, yRight, yLeft) ==
  IF isNaN(yRight.res.re) THEN 0 ELSE 1

\* the direction of a pass: -1 left, 0 stand, 1 right
directionOf(y, yRight, yLeft) ==
  CASE comparable(y, yRight, yLeft) ->
    IF lessThan(yLeft, lower(y, yRight)) = "true" THEN -1
    ELSE IF lessThan(yRight, y) = "true" THEN 1 ELSE 0

\* y at the end of a pass
lowest(y, yRight, yLeft) ==
  IF lessThan(yLeft, lower(y, yRight)) = "true" THEN yLeft
  ELSE lower(y, yRight)

\* dvValue at the end of a pass
moved(dvValue, step, direction) ==
  IF direction = 1 THEN Add(dvValue, step)
  ELSE IF direction = -1 THEN Sub(dvValue, step)
  ELSE dvValue

\* step at the end of a pass
halved(step, direction, lastDirection) ==
  IF direction = 0 \/ direction # lastDirection THEN Div(step, <<2, 1>>)
  ELSE step

\* the value of the node is finite whatever finite values its variables
\* have: it is built from numbers and variables by + - * and the unary minus
RECURSIVE polynomial(_)
polynomial(node) ==
  /\ \/ node.op = OpConst /\ isFinite(node.re) /\ isFinite(node.im)
     \/ isVarNode(node) /\ varId(node) \notin Transcendental
     \/ node.op \in {<<"+">>, <<"-">>, <<"*">>, OpUnaryMinus}
  /\ \A k \in 1..Len(node.c) : polynomial(node.c[k])

RECURSIVE constantIn(_, _, _)

\* the value is the number 0 without a bound
isZeroExactly(w) == w.p = "exact" /\ w.res.re = Zero /\ w.res.im = Zero

\* the node is the number 0 whatever value dvId has
vanishes(dict, node, dvId) ==
  /\ constantIn(dict, node, dvId)
  /\ isZeroExactly(evalWithin((dvId :> const(Zero, Zero)) @@ dict, node))

\* the value of the node under dict does not depend on the finite value of
\* the variable dvId: the variable does not occur in it, or only in factors
\* of products with 0
constantIn(dict, node, dvId) ==
  \/ isVarNode(node) /\ varId(node) # dvId
  \/ /\ ~isVarNode(node)
     /\ \A k \in 1..Len(node.c) : constantIn(dict, node.c[k], dvId)
  \/ /\ node.op = <<"*">>
     /\ \/ vanishes(dict, node.c[1], dvId) /\ polynomial(node.c[2])
        \/ vanishes(dict, node.c[2], dvId) /\ polynomial(node.c[1])

\* the loop of minimize stands still from a pass with the value y at dvValue
\* on: y is NaN, which no value is smaller than, or the term does not
\* depend on dvId; then y, yRight and yLeft are the same in every later
\* pass, direction is 0, and the loop ends by its bound MAX_ITERATIONS
standsStill(term, dvId, vars, y) ==
  /\ y.p # "lost"
  /\ \/ isNaN(y.res.re)
     \/ constantIn(vars, term.root, dvId) /\ belowEps(y) = "false"

\* the end of minimize that the model does not compute
Unfollowed == [known |-> FALSE, dvValue |-> NaN, y |-> NaN, cnt |-> 0]

\* the end of minimize after cnt passes with `return [dvValue, y]`, known
\* where y is a value of eval
ended(dvValue, y, cnt) ==
  IF y.p # "lost" /\ err(y) <= Tolerance
  THEN [known |-> TRUE, dvValue |-> dvValue, y |-> y.res.re, cnt |-> cnt]
  ELSE Unfollowed

\* the loop of minimize from its pass cnt on up to the return.  The model
\* follows the passes up to MaxIterations; a loop that stands still is
\* followed to its end at once; the end of a loop that has neither ended
\* nor come to stand still by then, or in which the model does not decide a
\* comparison, is Unfollowed.
RECURSIVE minimizeLoop(_, _, _, _, _, _, _)
RECURSIVE minimizeFrom(_, _, _, _, _, _, _, _)
RECURSIVE minimizePass(_, _, _, _, _, _, _, _, _, _)
RECURSIVE minimizeMoved(_, _, _, _, _, _, _, _, _)

minimizeLoop(term, dvId, vars, cnt, dvValue, step, lastDirection) ==
  IF cnt >= MAX_ITERATIONS
  THEN ended(dvValue, objectiveWithin(term, dvId, vars, dvValue), cnt)
  ELSE minimizeFrom(term, dvId, vars, cnt, dvValue, step, lastDirection,
                    objectiveWithin(term, dvId, vars, dvValue))

\* the loop from the value y of the term at dvValue on
minimizeFrom(term, dvId, vars, cnt, dvValue, step, lastDirection, y) ==
  IF standsStill(term, dvId, vars, y) THEN ended(dvValue, y, MAX_ITERATIONS)
  ELSE IF cnt >= MaxIterations THEN Unfollowed
  ELSE minimizePass(term, dvId, vars, cnt, dvValue, step, lastDirection, y,
                    objectiveWithin(term, dvId, vars, Add(dvValue, step)),
                    objectiveWithin(term, dvId, vars, Sub(dvValue, step)))

\* a pass from the three values of the term on
minimizePass(term, dvId, vars, cnt, dvValue, step, lastDirection, y, yRight, yLeft) ==
  IF ~comparable(y, yRight, yLeft) THEN Unfollowed
  ELSE minimizeMoved(term, dvId, vars, cnt, step, lastDirection,
                     lowest(y, yRight, yLeft), directionOf(y, yRight, yLeft),
                     moved(dvValue, step, directionOf(y, yRight, yLeft)))

\* a pass from `if (y < EPS) break` on
minimizeMoved(term, dvId, vars, cnt, step, lastDirection, y, direction, dvValue) ==
  IF belowEps(y) = "unknown" THEN Unfollowed
  ELSE IF belowEps(y) = "true"
  THEN ended(dvValue, objectiveWithin(term, dvId, vars, dvValue), cnt)
  ELSE minimizeLoop(term, dvId, vars, cnt + 1, dvValue,
                    halved(step, direction, lastDirection), direction)

\* [dvValue, y] and cnt of an end that the model computes
returned(m) ==
  CASE m.known -> [dvValue |-> m.dvValue, y |-> m.y, cnt |-> m.cnt]

\* minimize(term, dvId, vars) with the cnt of its end
minimize(term, dvId, vars) ==
  returned(minimizeLoop(term, dvId, vars, 0, Zero, One, InitialDirection))

(***************************************************************************)
(* math_ODE.js: compareODE                                                 *)
(*                                                                         *)
(* The activation of compareODE is the record of its locals: tu, tv (the   *)
(* roots of the copies), N, nonConstantVariables, constantPermutations,    *)
(* the index p of the permutation of the outer loop, tuClone, tvClone, the *)
(* index k of the inner loop and the value returned ("running" before the  *)
(* return).  K and cnt are the result and the count of passes of the last  *)
(* call of minimize.  swapped tells that the call is compareODE(tv, tu),   *)
(* first is the value that compareODE(tu, tv) returned before it.          *)
(***************************************************************************)
NoOde ==
  [tu |-> NoNode, tv |-> NoNode, N |-> 0, nonConstantVariables |-> <<>>,
   constantPermutations |-> <<>>, p |-> 0, tuClone |-> NoNode,
   tvClone |-> NoNode, k |-> 0, K |-> Zero, cnt |-> 0, swapped |-> FALSE,
   first |-> "none", result |-> "running"]

\* prefix + i
indexed(prefix, i) == prefix \o intToString(i)

\* the elements of s that start with "C", and the other ones
RECURSIVE constantsOf(_)
constantsOf(s) ==
  IF Len(s) = 0 THEN <<>>
  ELSE IF startsWith(s[1], <<"C">>) THEN <<s[1]>> \o constantsOf(Tail(s))
  ELSE constantsOf(Tail(s))

RECURSIVE nonConstantsOf(_)
nonConstantsOf(s) ==
  IF Len(s) = 0 THEN <<>>
  ELSE IF startsWith(s[1], <<"C">>) THEN nonConstantsOf(Tail(s))
  ELSE <<s[1]>> \o nonConstantsOf(Tail(s))

\* for (i = from; i < N; i++) renameVar(oldNames[i], prefix + newIndex[i])
RECURSIVE renameAll(_, _, _, _, _)
renameAll(node, oldNames, prefix, newIndex, i) ==
  IF i > Len(oldNames) THEN node
  ELSE renameAll(renameVar(oldNames[i], indexed(prefix, newIndex[i]), node),
                 oldNames, prefix, newIndex, i + 1)

\* <<prefix + 0, ..., prefix + (N - 1)>>
names(prefix, N) == [i \in 1..N |-> indexed(prefix, i - 1)]

\* the two loops that rename the constants to C0, C1, ...
canonical(node, constantVariables) ==
  LET N == Len(constantVariables)
  IN renameAll(renameAll(node, constantVariables, <<"_", "C">>, range(N), 1),
               names(<<"_", "C">>, N), <<"C">>, range(N), 1)

\* a variant of permuted that renames C_i to C_permutation[i] at once
permutedDirect(node, permutation) ==
  renameAll(node, names(<<"C">>, Len(permutation)), <<"C">>, permutation, 1)

\* the two loops that perform the permutation on tvClone
permuted(node, permutation) ==
  LET N == Len(permutation)
  IN renameAll(renameAll(node, names(<<"C">>, N), <<"_", "_", "C">>,
                         permutation, 1),
               names(<<"_", "_", "C">>, N), <<"C">>, range(N), 1)

\* dict[ckId] = C_k * K
scaleDict(k) ==
  indexed(<<"C">>, k) :>
    TermNode(<<"*">>,
             <<TermNode(OpVar \o indexed(<<"C">>, k), <<>>, Zero, Zero),
               TermNode(OpVar \o <<"K">>, <<>>, Zero, Zero)>>, Zero, Zero)

\* context["C" + j] = 0 for every j # k
othersZero(N, k) ==
  [id \in {indexed(<<"C">>, j) : j \in (0..(N - 1)) \ {k}} |-> const(Zero, Zero)]

\* the term abs(tuClone - tvClone)
absTerm(tuClone, tvClone) ==
  [newTerm(<<>>) EXCEPT
     !.root = TermNode(OpAbs,
                <<TermNode(<<"-">>, <<tuClone, tvClone>>, Zero, Zero)>>,
                Zero, Zero)]

\* compareODE from the copies of tu and tv to the loop over the permutations
odePrepared(o) ==
  LET u == prepareODEconstantComparison(o.tu)
      v == prepareODEconstantComparison(o.tv)
      allVariables == getVars(getVars(<<>>, <<>>, u), <<>>, v)
      constantVariables == constantsOf(allVariables)
      N == Len(constantVariables)
  IN [o EXCEPT !.tu = canonical(u, constantVariables),
               !.tv = canonical(v, constantVariables),
               !.N = N,
               !.nonConstantVariables = nonConstantsOf(allVariables),
               !.constantPermutations = heapsAlgorithm(range(N), <<>>, -1).result,
               !.p = 1]

\* the context of a pass of the loop over k; draw[v] is the pair of random
\* numbers for the variable v
odeContext(o, draw) ==
  othersZero(o.N, o.k) @@
    [v \in DOMAIN draw |-> const(draw[v][1], draw[v][2])]

\* the end of the call of minimize of a pass of the loop over k
odeSearch(o, draw) ==
  minimizeLoop(absTerm(o.tuClone, setVars(scaleDict(o.k), o.tvClone)),
               <<"K">>, odeContext(o, draw), 0, Zero, One, InitialDirection)

\* the pass from the return m of minimize up to the call of Term.compare
odeScaledBy(o, m) ==
  [o EXCEPT !.K = m.dvValue, !.cnt = m.cnt,
            !.tvClone = setVars(<<"K">> :> const(m.dvValue, Zero),
                                setVars(scaleDict(o.k), o.tvClone))]

\* one pass of the loop over k up to the call of Term.compare
odeScaled(o, draw) == odeScaledBy(o, returned(odeSearch(o, draw)))

(***************************************************************************)
(* compareODE on the TermNode objects                                      *)
(*                                                                         *)
(* mem is the sequence of the TermNode objects in the order of their       *)
(* creation, a reference is an index of mem (0 is null), and the field c   *)
(* of an object holds references.  The record heap holds mem and the       *)
(* roots that compareODE refers to: argU and argV of the terms passed, tu  *)
(* and tv of the copies that it renames, tuClone and tvClone of the copies *)
(* of a permutation.                                                       *)
(***************************************************************************)
\* no TermNode object, and no reference to one
NoHeap ==
  [mem |-> <<>>, argU |-> 0, argV |-> 0, tu |-> 0, tv |-> 0, tuClone |-> 0,
   tvClone |-> 0]

\* the objects that a traversal from the references todo reaches, the
\* children before their parent
RECURSIVE visited(_, _)
visited(mem, todo) ==
  IF Len(todo) = 0 THEN <<>>
  ELSE visited(mem, mem[todo[1]].c) \o <<todo[1]>> \o visited(mem, Tail(todo))

nodesOf(mem, a) == IF a = 0 THEN {} ELSE Elements(visited(mem, <<a>>))

\* the term that the object a is the root of
RECURSIVE treeAt(_, _)
treeAt(mem, a) ==
  [mem[a] EXCEPT !.c = [j \in 1..Len(mem[a].c) |-> treeAt(mem, mem[a].c[j])]]

\* the nodes of the terms c, the children before their parent
RECURSIVE flattened(_)
flattened(c) ==
  IF Len(c) = 0 THEN <<>>
  ELSE flattened(c[1].c) \o <<c[1]>> \o flattened(Tail(c))

\* new TermNode(op, c, re, im) for every node of a term: the objects after
\* it and the reference to the root
created(mem, node) ==
  LET f == flattened(<<node>>)
      child(i, j) ==
        Len(mem) + i - 1 - Len(flattened(SubSeq(f[i].c, j + 1, Len(f[i].c))))
  IN [mem |-> mem \o [i \in 1..Len(f) |->
                        [f[i] EXCEPT !.c = [j \in 1..Len(f[i].c) |-> child(i, j)]]],
      at |-> Len(mem) + Len(f)]

\* a variant of cloneNode that hands out the object itself
cloneNodeShared(mem, a) == [mem |-> mem, at |-> a]

\* TermNode.clone() of the object a: a new object for every object that the
\* traversal meets
cloneNode(mem, a) ==
  LET o == visited(mem, <<a>>)
      child(i, j) ==
        Len(mem) + i - 1
          - Len(visited(mem, SubSeq(mem[o[i]].c, j + 1, Len(mem[o[i]].c))))
  IN [mem |-> mem \o [i \in 1..Len(o) |->
                        [mem[o[i]] EXCEPT
                           !.c = [j \in 1..Len(mem[o[i]].c) |-> child(i, j)]]],
      at |-> Len(mem) + Len(o)]

\* the body of Term.renameVar after its loop over the children
renameVarAt(mem, oldName, newName, a) ==
  IF isVarNode(mem[a]) /\ varId(mem[a]) = oldName
  THEN [mem EXCEPT ![a].op = OpVar \o newName]
  ELSE mem

\* the body of Term.setVars after its loop over the children; dict maps an
\* identifier to a reference
setVarsAt(mem, dict, a) ==
  IF isVarNode(mem[a]) /\ varId(mem[a]) \in DOMAIN dict
  THEN LET x == cloneNode(mem, dict[varId(mem[a])])
       IN [x.mem EXCEPT ![a].op = x.mem[x.at].op, ![a].c = x.mem[x.at].c,
                        ![a].re = x.mem[x.at].re, ![a].im = x.mem[x.at].im]
  ELSE mem

\* the switch of prepareODEconstantComparison after its loop over the
\* children
prepareAt(mem, a) ==
  LET op == [j \in 1..Len(mem[a].c) |-> mem[mem[a].c[j]].op]
      leaf(j) == [mem EXCEPT ![a].op = op[j], ![a].c = <<>>]
  IN IF mem[a].op \in BinaryOps
     THEN IF isConstVar(op[1]) /\ op[2] = OpConst THEN leaf(1)
          ELSE IF isConstVar(op[2]) /\ op[1] = OpConst THEN leaf(2)
          ELSE IF isConstVar(op[1]) /\ isConstVar(op[2]) /\ op[1] = op[2]
          THEN leaf(1)
          ELSE mem
     ELSE IF mem[a].op \in PreparedUnaryOps /\ isConstVar(op[1]) THEN leaf(1)
     ELSE mem

\* the recursion that renameVar, setVars and prepareODEconstantComparison
\* share: the children of a node in their order, then the node itself.  An
\* entry of the stack is an object to enter or, after its children, to
\* work on.
RECURSIVE walk(_, _, _)
walk(mem, job, stack) ==
  IF Len(stack) = 0 THEN mem
  ELSE IF stack[1].enter
  THEN walk(mem, job,
            [j \in 1..Len(mem[stack[1].at].c) |->
               [enter |-> TRUE, at |-> mem[stack[1].at].c[j]]]
              \o <<[enter |-> FALSE, at |-> stack[1].at]>> \o Tail(stack))
  ELSE walk(CASE job.name = "renameVar" ->
                   renameVarAt(mem, job.oldName, job.newName, stack[1].at)
              [] job.name = "setVars" -> setVarsAt(mem, job.dict, stack[1].at)
              [] job.name = "prepare" -> prepareAt(mem, stack[1].at),
            job, Tail(stack))

enter(a) == <<[enter |-> TRUE, at |-> a]>>

\* for (i = from; i < N; i++) for every root: renameVar(oldNames[i],
\* prefix + newIndex[i])
RECURSIVE renameObjects(_, _, _, _, _, _)
renameObjects(mem, roots, oldNames, prefix, newIndex, i) ==
  IF i > Len(oldNames) THEN mem
  ELSE LET job == [name |-> "renameVar", oldName |-> oldNames[i],
                   newName |-> indexed(prefix, newIndex[i])]
           m1 == walk(mem, job, enter(roots[1]))
           m2 == IF Len(roots) = 1 THEN m1 ELSE walk(m1, job, enter(roots[2]))
       IN renameObjects(m2, roots, oldNames, prefix, newIndex, i + 1)

\* the objects of the terms that compareODE is called with
heapStart(tu, tv) ==
  LET u == created(<<>>, tu)
      v == created(u.mem, tv)
  IN [NoHeap EXCEPT !.mem = v.mem, !.argU = u.at, !.argV = v.at,
                    !.tu = u.at, !.tv = v.at]

\* compareODE from the copies of tu and tv to the loop over the permutations
heapPrepared(h) ==
  LET u == cloneNode(h.mem, h.tu)
      v == cloneNode(u.mem, h.tv)
      m1 == walk(v.mem, [name |-> "prepare"], enter(u.at))
      m2 == walk(m1, [name |-> "prepare"], enter(v.at))
      constantVariables ==
        constantsOf(getVars(getVars(<<>>, <<>>, treeAt(m2, u.at)), <<>>,
                            treeAt(m2, v.at)))
      N == Len(constantVariables)
      m3 == renameObjects(m2, <<u.at, v.at>>, constantVariables, <<"_", "C">>,
                          range(N), 1)
      m4 == renameObjects(m3, <<u.at, v.at>>, names(<<"_", "C">>, N), <<"C">>,
                          range(N), 1)
  IN [h EXCEPT !.mem = m4, !.tu = u.at, !.tv = v.at]

\* the head of a pass of the loop over the permutations
heapPermutation(h, permutation) ==
  LET u == cloneNode(h.mem, h.tu)
      v == cloneNode(u.mem, h.tv)
      N == Len(permutation)
      m1 == renameObjects(v.mem, <<v.at>>, names(<<"C">>, N),
                          <<"_", "_", "C">>, permutation, 1)
      m2 == renameObjects(m1, <<v.at>>, names(<<"_", "_", "C">>, N), <<"C">>,
                          range(N), 1)
  IN [h EXCEPT !.mem = m2, !.tuClone = u.at, !.tvClone = v.at]

\* one pass of the loop over k up to the call of Term.compare; K is the
\* number that minimize has returned
heapScaled(h, k, K) ==
  LET ckId == indexed(<<"C">>, k)
      d == created(h.mem, scaleDict(k)[ckId])
      m1 == walk(d.mem, [name |-> "setVars", dict |-> ckId :> d.at],
                 enter(h.tvClone))
      m2 == m1 \o <<TermNode(<<"-">>, <<h.tuClone, h.tvClone>>, Zero, Zero),
                    TermNode(OpAbs, <<Len(m1) + 1>>, Zero, Zero)>>
      c == created(m2, const(K, Zero))
  IN [h EXCEPT !.mem = walk(c.mem, [name |-> "setVars",
                                    dict |-> <<"K">> :> c.at],
                            enter(h.tvClone))]

(***************************************************************************)
(* The sources of the model                                                *)
(***************************************************************************)
\* the pieces from which the sources are put together
Atoms ==
  {<<"x">>, <<"3">>, <<" ">>, <<"+">>, <<"-">>, <<"*">>, <<"^">>, <<"(">>,
   <<")">>, <<"|">>, <<".">>, <<"C">>, <<"s", "i", "n">>}

\* the sources of at most n atoms
RECURSIVE SourcesUpTo(_)
SourcesUpTo(n) ==
  IF n = 0 THEN {<<>>}
  ELSE LET shorter == SourcesUpTo(n - 1)
       IN shorter \cup {s \o a : s \in shorter, a \in Atoms}

\* the lines "sin ..." of the comparison table of math_TEST.js: <<left, right>>
C5Examples ==
  <<<<<<"s", "i", "n", " ", "2", "p", "i">>,
       <<"s", "i", "n", "(", "2", "*", "p", "i", ")">>>>,
    <<<<"s", "i", "n", " ", "2", " ", "p", "i">>,
       <<"s", "i", "n", "(", "2", ")", "*", "p", "i">>>>,
    <<<<"s", "i", "n", " ", "2", "*", "p", "i", " ", "*", "5">>,
       <<"s", "i", "n", "(", "2", "*", "p", "i", ")", "*", "5">>>>,
    <<<<"s", "i", "n", " ", "2", "*", " ", "p", "i">>,
       <<"s", "i", "n", "(", "2", "*", "p", "i", ")">>>>,
    <<<<"s", "i", "n", " ", "p", "i", " ", "^", "2">>,
       <<"(", "s", "i", "n", " ", "p", "i", ")", "^", "2">>>>,
    <<<<"s", "i", "n", " ", "p", "i", "+", "p", "i">>,
       <<"s", "i", "n", "(", "p", "i", ")", "+", "p", "i">>>>>>

\* further sources of the tests and of the documentation
MoreSources ==
  {<<"s", "i", "n", " ", "c", "o", "s", "(", "x", " ", "+", " ", "y", ")">>,
   <<"s", "i", "n", "(", "x", " ", "+", " ", "y", ")">>,
   <<"s", "i", "n", " ", "c", "o", "s", "(", "x", "+", "y", ")">>,
   <<"c", "o", "s", "(", " ", "x", " ", ")">>, <<"x", "y", "z", " ", "t">>,
   <<"2", "x">>, <<"x", "(", "y", "+", "1", ")">>,
   <<"s", "i", "n", " ", "2", "(", "p", "i", ")">>,
   <<"s", "i", "n", " ", "2", "*", "(", "p", "i", ")">>, <<"x", "C", "1">>,
   <<"C", "1", "x">>, <<"C", "3", "x">>, <<"2", ".", "(">>,
   <<"2", ".", "5", "x">>, <<"|", "x", " ", "-", " ", "y", "|">>,
   <<"-", "s", "i", "n", " ", "3", "x", " ", "+", " ", "c", "o", "s", "(", "x", "^", "5", "+", "1", ")", " ", "/", " ", "7">>,
   <<"s", "i", "n", "c", "2", "x", "+", "1">>, <<"l", "n", "x", " ", "2">>,
   <<"2", "^", "3", "^", "4">>}

ParseSources ==
  SourcesUpTo(MaxLen) \cup MoreSources
  \cup {C5Examples[k][1] : k \in 1..Len(C5Examples)}
  \cup {C5Examples[k][2] : k \in 1..Len(C5Examples)}

\* src with a "*" put in front of the character at offset k
withStar(s, k) == SubSeq(s, 1, k) \o <<"*">> \o SubSeq(s, k + 1, Len(s))

(***************************************************************************)
(* The state                                                               *)
(***************************************************************************)
NoResult == [t |-> newTerm(<<>>), err |-> "none"]


VARIABLES
  pc,     \* the step that comes next
  src,    \* the source given to Term.parse
  term,   \* the result [t, err] of Term.parse(src)
  at,     \* the offset in src of an implicit multiplication
  str,    \* a second source
  term2,  \* the result [t, err] of Term.parse(str)
  fn,     \* the result of Term.fun1()
  cmp,    \* the activation of Term.compare
  ode,    \* the activation of compareODE
  heap,   \* the TermNode objects of a call of compareODE
  matrix, \* a Matrix
  arg,    \* the arguments of a call
  out     \* the value that the call returned

vars == <<pc, src, term, at, str, term2, fn, cmp, ode, heap, matrix, arg, out>>

\* no call of compare
NoCompare ==
  [tu |-> NoNode, tv |-> NoNode, predefinedContext |-> <<>>, vars |-> <<>>,
   i |-> 0, context |-> <<>>, r1 |-> NoNode, r2 |-> NoNode, abs |-> Zero,
   within |-> 0, result |-> "running"]

(***************************************************************************)
(* Parsing: Term.parse on a source, and again with an explicit "*"         *)
(***************************************************************************)
ParseInit ==
  /\ pc = "start"
  /\ src \in ParseSources
  /\ term = NoResult
  /\ at = 0
  /\ str = <<>>
  /\ term2 = NoResult
  /\ fn = <<>>
  /\ cmp = NoCompare
  /\ ode = NoOde
  /\ heap = NoHeap
  /\ matrix = NoMatrix
  /\ arg = <<>>
  /\ out = <<>>

\* term = Term.parse(src)
Parse ==
  /\ pc = "start"
  /\ term' = parse(src)
  /\ pc' = IF term'.err = "" THEN "parsed" ELSE "failed"
  /\ UNCHANGED <<src, at, str, term2, fn, cmp, ode, heap, matrix, arg, out>>

\* Term.parse(str) for the source str that has a "*" where the parser
\* multiplied implicitly
InsertStar ==
  /\ pc = "parsed"
  /\ \E k \in 1..Len(term.t.log) :
       /\ term.t.log[k].kind = "mul"
       /\ at' = term.t.log[k].at
       /\ str' = withStar(src, term.t.log[k].at)
       /\ term2' = parse(withStar(src, term.t.log[k].at))
  /\ pc' = "starred"
  /\ UNCHANGED <<src, term, fn, cmp, ode, heap, matrix, arg, out>>

ParseNext == Parse \/ InsertStar

ParseSpec == ParseInit /\ [][ParseNext]_vars

(***************************************************************************)
(* Term.fun1 on the first token of a source                                *)
(***************************************************************************)
FunctionSuffixes ==
  {<<>>, <<"x">>, <<" ", "x">>, <<"(", "x", ")">>, <<"3">>}

FunctionSources ==
  {fun1Names[k] \o suffix : k \in 1..Len(fun1Names), suffix \in FunctionSuffixes}
  \cup {<<"S", "I", "N">>, <<"S", "i", "n", "c", " ", "x">>,
        <<"C", "O", "S", "H", "(", "x", ")">>, <<"L", "n", "x">>,
        <<"x">>, <<"s", "i">>, <<"t", "a">>}

Fun1Init ==
  /\ pc = "start"
  /\ src \in FunctionSources
  /\ term = NoResult
  /\ at = 0
  /\ str = <<>>
  /\ term2 = NoResult
  /\ fn = <<>>
  /\ cmp = NoCompare
  /\ ode = NoOde
  /\ heap = NoHeap
  /\ matrix = NoMatrix
  /\ arg = <<>>
  /\ out = <<>>

\* the first this.next() of Term.parse
Lex ==
  /\ pc = "start"
  /\ term' = [t |-> next(newTerm(src), -1), err |-> ""]
  /\ pc' = "lexed"
  /\ UNCHANGED <<src, at, str, term2, fn, cmp, ode, heap, matrix, arg, out>>

\* fn = this.fun1()
Recognize ==
  /\ pc = "lexed"
  /\ fn' = fun1(term.t.token)
  /\ pc' = "recognized"
  /\ UNCHANGED <<src, term, at, str, term2, cmp, ode, heap, matrix, arg, out>>

Fun1Next == Lex \/ Recognize

Fun1Spec == Fun1Init /\ [][Fun1Next]_vars

(***************************************************************************)
(* Term.compare, one pass of its loop at a time                            *)
(***************************************************************************)
\* <<tu, tv, predefinedContext>>
ComparePairs ==
  {<<<<"2", "x">>,
     <<"x", " ", "+", " ", "x">>,
     <<>>>>,
   <<<<"2", "x">>,
     <<"x", " ", "+", " ", "x", " ", "+", " ", "0", ".", "0", "0", "1">>,
     <<>>>>,
   <<<<"x", "*", "y">>,
     <<"y", "*", "x">>,
     <<>>>>,
   <<<<"x">>,
     <<"y">>,
     <<>>>>,
   <<<<"(", "x", "+", "y", ")", "^", "2">>,
     <<"x", "^", "2", "+", "2", "x", "y", "+", "y", "^", "2">>,
     <<>>>>,
   <<<<"1", "/", "x">>,
     <<"x", "^", "(", "-", "1", ")">>,
     <<>>>>,
   <<<<"1", "/", "0">>,
     <<"5">>,
     <<>>>>,
   <<<<"x", "/", "0">>,
     <<"x">>,
     <<>>>>,
   <<<<"0", "^", "2">>,
     <<"0">>,
     <<>>>>,
   <<<<"1", "/", "(", "x", "-", "x", ")">>,
     <<"1", "/", "(", "y", "-", "y", ")">>,
     <<>>>>,
   <<<<"x", "/", "x">>,
     <<"1">>,
     <<>>>>,
   <<<<"x", "+", "y">>,
     <<"x", "+", "1">>,
     (<<"y">> :> const(One, Zero))>>,
   <<<<"x", "+", "y">>,
     <<"x">>,
     (<<"y">> :> const(Zero, Zero))>>,
   <<<<"x", "*", "y">>,
     <<"x">>,
     (<<"y">> :> const(One, Zero))>>,
   <<<<"x", "y", "+", "C">>,
     <<"x", "y">>,
     (<<"C">> :> const(Zero, Zero))>>,
   <<<<"x">>,
     <<"x">>,
     <<>>>>,
   <<<<"x", "^", "2">>,
     <<"x", "*", "x">>,
     <<>>>>,
   <<<<"i", "^", "2">>,
     <<"-", "1">>,
     <<>>>>,
   <<<<"2", "^", "3">>,
     <<"8">>,
     <<>>>>,
   <<<<"2", "^", "3">>,
     <<"8", ".", "0", "0", "1">>,
     <<>>>>}

CompareInit ==
  /\ pc = "start"
  /\ \E pair \in ComparePairs :
       /\ src = pair[1]
       /\ str = pair[2]
       /\ cmp = [NoCompare EXCEPT !.predefinedContext = pair[3]]
  /\ term = NoResult
  /\ term2 = NoResult
  /\ at = 0
  /\ fn = <<>>
  /\ ode = NoOde
  /\ heap = NoHeap
  /\ matrix = NoMatrix
  /\ arg = <<>>
  /\ out = <<>>

\* tu = Term.parse(src), tv = Term.parse(str), and the call of compare
ParseBoth ==
  /\ pc = "start"
  /\ term' = parse(src)
  /\ term2' = parse(str)
  /\ IF term'.err = "" /\ term2'.err = ""
     THEN /\ cmp' = compareStart(term'.t.root, term2'.t.root,
                                 cmp.predefinedContext)
          /\ pc' = "compare"
     ELSE /\ cmp' = cmp
          /\ pc' = "failed"
  /\ UNCHANGED <<src, at, str, fn, ode, heap, matrix, arg, out>>

\* one pass of the loop of Term.compare
CompareTrial ==
  /\ pc = "compare"
  /\ cmp.result = "running"
  /\ \E draw \in [freeVars(cmp) -> RandomValues \X RandomValues] :
       cmp' \in trials(cmp, contextOf(cmp, draw))
  /\ UNCHANGED <<pc, src, term, at, str, term2, fn, ode, heap, matrix, arg, out>>

CompareNext == ParseBoth \/ CompareTrial

CompareSpec == CompareInit /\ [][CompareNext]_vars

(***************************************************************************)
(* The round trip parse, toString, parse, compare                          *)
(***************************************************************************)
RoundTripSources ==
  SourcesUpTo(MaxLen) \cup
  {<<"(", "-", "x", ")", "^", "2">>, <<"(", "-", "x", ")", "^", "3">>,
   <<"(", "-", "x", ")", "*", "y">>, <<"-", "x", "^", "2">>,
   <<"2", ".", "5", "x">>, <<"x", "-", "(", "-", "3", ")">>,
   <<"(", "x", "+", "y", ")", "^", "2">>, <<"x", "/", "y", "/", "3">>,
   <<"0", ".", "5", "x", "^", "2", "-", "x">>,
   <<"-", "(", "x", "+", "1", ")">>,
   <<"(", "-", "(", "-", "x", ")", ")", "^", "2">>,
   <<"1", "/", "(", "-", "x", ")", "^", "2">>,
   <<"0", ".", "0", "0", "0", "0", "0", "0", "1", "x">>, <<"i", "^", "2">>,
   <<"x", "I">>, <<"s", "i", "n", " ", "2", "p", "i">>}

RoundTripInit ==
  /\ pc = "start"
  /\ src \in RoundTripSources
  /\ term = NoResult
  /\ at = 0
  /\ str = <<>>
  /\ term2 = NoResult
  /\ fn = <<>>
  /\ cmp = NoCompare
  /\ ode = NoOde
  /\ heap = NoHeap
  /\ matrix = NoMatrix
  /\ arg = <<>>
  /\ out = <<>>

\* str = term.toString()
Display ==
  /\ pc = "parsed"
  /\ str' = toString(term.t.root)
  /\ pc' = "printed"
  /\ UNCHANGED <<src, term, at, term2, fn, cmp, ode, heap, matrix, arg, out>>

\* term2 = Term.parse(str)
Reparse ==
  /\ pc = "printed"
  /\ term2' = parse(str)
  /\ pc' = "reparsed"
  /\ UNCHANGED <<src, term, at, str, fn, cmp, ode, heap, matrix, arg, out>>

\* the call Term.compare(term2, term)
CompareRoundTrip ==
  /\ pc = "reparsed"
  /\ term2.err = ""
  /\ cmp' = compareStart(term2.t.root, term.t.root, <<>>)
  /\ pc' = "compare"
  /\ UNCHANGED <<src, term, at, str, term2, fn, ode, heap, matrix, arg, out>>

RoundTripNext == Parse \/ Display \/ Reparse \/ CompareRoundTrip \/ CompareTrial

RoundTripSpec == RoundTripInit /\ [][RoundTripNext]_vars

(***************************************************************************)
(* compareODE, one step at a time, and then with tu and tv exchanged       *)
(***************************************************************************)
\* <<tu, tv>>: tv is tu with the constants renamed or rescaled
RelatedPairs ==
  {<<<<"C", "1", "*", "x">>,
     <<"x", "*", "C", "1">>>>,
   <<<<"C", "1", "*", "|", "x", "*", "x", "|", "+", "C", "2">>,
     <<"C", "2", "*", "|", "x", "*", "x", "|", "+", "C", "1">>>>,
   <<<<"C", "*", "x">>,
     <<"C", "*", "x", "/", "2">>>>,
   <<<<"C", "*", "x">>,
     <<"C", "*", "x", "*", "2">>>>,
   <<<<"C", "*", "x">>,
     <<"3", "*", "C", "*", "x">>>>,
   <<<<"C", "1", "*", "C", "2", "*", "x", "+", "C", "1">>,
     <<"C", "1", "*", "C", "2", "*", "x", "+", "C", "2">>>>}

\* <<tu, tv>>: tv is tu plus a summand with a constant of its own
ExtendedPairs ==
  {<<<<"C", "1", "*", "x">>,
     <<"C", "1", "*", "x", "+", "C", "2">>>>,
   <<<<"C", "1", "*", "x">>,
     <<"C", "1", "*", "x", "+", "C", "2", "*", "x", "^", "2">>>>}

\* <<tu, tv>>: terms that differ otherwise
DifferentPairs ==
  {<<<<"x">>,
     <<"2", "x">>>>}

\* <<tu, tv>>: tv is tu with the constant rescaled, and both have the
\* variable K
CapturedPairs ==
  {<<<<"C", "*", "K">>,
     <<"2", "*", "C", "*", "K">>>>}

OdePairs ==
  RelatedPairs \cup ExtendedPairs \cup DifferentPairs \cup CapturedPairs

OdeInit ==
  /\ pc = "start"
  /\ \E pair \in OdePairs : src = pair[1] /\ str = pair[2]
  /\ term = NoResult
  /\ term2 = NoResult
  /\ at = 0
  /\ fn = <<>>
  /\ cmp = NoCompare
  /\ ode = NoOde
  /\ heap = NoHeap
  /\ matrix = NoMatrix
  /\ arg = <<>>
  /\ out = <<>>

\* tu = Term.parse(src), tv = Term.parse(str), the call compareODE(tu, tv)
\* (compareODE(tv, tu) when swapped) and its call Term.compare(tu, tv)
OdeStart ==
  /\ pc = "start"
  /\ term' = parse(src)
  /\ term2' = parse(str)
  /\ IF term'.err = "" /\ term2'.err = ""
     THEN LET tu == IF ode.swapped THEN term2'.t.root ELSE term'.t.root
              tv == IF ode.swapped THEN term'.t.root ELSE term2'.t.root
          IN /\ ode' = [NoOde EXCEPT !.tu = tu, !.tv = tv,
                                     !.swapped = ode.swapped,
                                     !.first = ode.first]
             /\ cmp' = compareStart(tu, tv, <<>>)
             /\ heap' = heapStart(tu, tv)
             /\ pc' = "compare"
     ELSE /\ UNCHANGED <<ode, cmp, heap>>
          /\ pc' = "failed"
  /\ UNCHANGED <<src, at, str, fn, matrix, arg, out>>

\* if (Term.compare(tu, tv)) return true
OdeLucky ==
  /\ pc = "compare"
  /\ ode.p = 0
  /\ cmp.result = "true"
  /\ ode' = [ode EXCEPT !.result = "true"]
  /\ pc' = "done"
  /\ cmp' = NoCompare
  /\ UNCHANGED <<src, term, at, str, term2, fn, heap, matrix, arg, out>>

\* the copies, prepareODEconstantComparison, the renaming of the constants
\* and the permutations
OdePrepare ==
  /\ pc = "compare"
  /\ ode.p = 0
  /\ cmp.result = "false"
  /\ ode' = odePrepared(ode)
  /\ heap' = heapPrepared(heap)
  /\ pc' = "permutations"
  /\ cmp' = NoCompare
  /\ UNCHANGED <<src, term, at, str, term2, fn, matrix, arg, out>>

\* the head of a pass of the loop over the permutations
OdePermutation ==
  /\ pc = "permutations"
  /\ ode.p <= Len(ode.constantPermutations)
  /\ ode' = [ode EXCEPT
               !.tuClone = ode.tu,
               !.tvClone = permuted(ode.tv, ode.constantPermutations[ode.p]),
               !.k = 0]
  /\ heap' = heapPermutation(heap, ode.constantPermutations[ode.p])
  /\ pc' = "constants"
  /\ UNCHANGED <<src, term, at, str, term2, fn, cmp, matrix, arg, out>>

\* the pass from the end m of minimize on, where the model computes it
Scaled(m) ==
  /\ m.known
  /\ ode' = odeScaledBy(ode, returned(m))
  /\ cmp' = compareStart(ode.tuClone, ode'.tvClone, othersZero(ode.N, ode.k))

\* a pass of the loop over k up to the call Term.compare(tuClone, tvClone,
\* context)
OdeScale ==
  /\ pc = "constants"
  /\ ode.k < ode.N
  /\ \E draw \in [{indexed(<<"C">>, ode.k)} \cup Elements(ode.nonConstantVariables)
                    -> RandomValues \X RandomValues] :
       Scaled(odeSearch(ode, draw))
  /\ heap' = heapScaled(heap, ode.k, ode'.K)
  /\ pc' = "scaled"
  /\ UNCHANGED <<src, term, at, str, term2, fn, matrix, arg, out>>

\* a variant of OdeScaled that goes on with the next constant though the
\* terms differ
OdeScaledOn ==
  /\ pc = "scaled"
  /\ cmp.result # "running"
  /\ ode' = [ode EXCEPT !.k = @ + 1]
  /\ pc' = "constants"
  /\ cmp' = NoCompare
  /\ UNCHANGED <<src, term, at, str, term2, fn, heap, matrix, arg, out>>

\* the end of a pass of the loop over k: break when the terms differ
OdeScaled ==
  /\ pc = "scaled"
  /\ cmp.result # "running"
  /\ IF cmp.result = "true"
     THEN ode' = [ode EXCEPT !.k = @ + 1] /\ pc' = "constants"
     ELSE ode' = [ode EXCEPT !.p = @ + 1] /\ pc' = "permutations"
  /\ cmp' = NoCompare
  /\ UNCHANGED <<src, term, at, str, term2, fn, heap, matrix, arg, out>>

\* success: the call Term.compare(tuClone, tvClone)
OdeAgain ==
  /\ pc = "constants"
  /\ ode.k = ode.N
  /\ cmp' = compareStart(ode.tuClone, ode.tvClone, <<>>)
  /\ pc' = "again"
  /\ UNCHANGED <<src, term, at, str, term2, fn, ode, heap, matrix, arg, out>>

\* if (success && Term.compare(tuClone, tvClone)) return true
OdeFinal ==
  /\ pc = "again"
  /\ cmp.result # "running"
  /\ IF cmp.result = "true"
     THEN ode' = [ode EXCEPT !.result = "true"] /\ pc' = "done"
     ELSE ode' = [ode EXCEPT !.p = @ + 1] /\ pc' = "permutations"
  /\ cmp' = NoCompare
  /\ UNCHANGED <<src, term, at, str, term2, fn, heap, matrix, arg, out>>

\* return false after the last permutation
OdeReturnFalse ==
  /\ pc = "permutations"
  /\ ode.p > Len(ode.constantPermutations)
  /\ ode' = [ode EXCEPT !.result = "false"]
  /\ pc' = "done"
  /\ UNCHANGED <<src, term, at, str, term2, fn, cmp, heap, matrix, arg, out>>

\* the call compareODE(tv, tu) after compareODE(tu, tv) has returned
OdeSwap ==
  /\ pc = "done"
  /\ ~ode.swapped
  /\ ode' = [NoOde EXCEPT !.swapped = TRUE, !.first = ode.result]
  /\ cmp' = NoCompare
  /\ heap' = NoHeap
  /\ pc' = "start"
  /\ UNCHANGED <<src, term, at, str, term2, fn, matrix, arg, out>>

\* one pass of the loop of a Term.compare that compareODE has called; the
\* locals context, r1, r2 and abs of the pass are dead at its end
OdeCompareTrial ==
  /\ pc \in {"compare", "scaled", "again"}
  /\ cmp.result = "running"
  /\ \E draw \in [freeVars(cmp) -> RandomValues \X RandomValues] :
       \E end \in trials(cmp, contextOf(cmp, draw)) :
         cmp' = [end EXCEPT
                   !.context = <<>>, !.r1 = NoNode, !.r2 = NoNode, !.abs = Zero]
  /\ UNCHANGED <<pc, src, term, at, str, term2, fn, ode, heap, matrix, arg, out>>

OdeNext ==
  \/ OdeStart \/ OdeLucky \/ OdePrepare \/ OdePermutation
  \/ OdeScale \/ OdeCompareTrial \/ OdeScaled \/ OdeAgain \/ OdeFinal
  \/ OdeReturnFalse \/ OdeSwap

OdeSpec == OdeInit /\ [][OdeNext]_vars

(***************************************************************************)
(* Properties of the parser                                                *)
(***************************************************************************)
(***************************************************************************)
(* Term.eval on a variable                                                 *)
(***************************************************************************)
\* sources that the parser reads as one variable
VariableSources ==
  {<<"p", "i">>, <<"e">>, <<"i">>, <<"I">>, <<"t", "r", "u", "e">>,
   <<"f", "a", "l", "s", "e">>, <<"x">>, <<"y">>, <<"K">>, <<"C">>,
   <<"C", "1">>, <<"C", "2">>, <<"_">>}

\* the names that a dict binds
BoundNames ==
  {<<"p", "i">>, <<"e">>, <<"i">>, <<"t", "r", "u", "e">>,
   <<"f", "a", "l", "s", "e">>, <<"x">>, <<"C", "1">>, <<"K">>}

\* the dicts of up to two names
Dicts ==
  UNION {[s -> {const(r, Zero) : r \in RandomValues}] :
           s \in {s \in SUBSET BoundNames : Cardinality(s) <= 2}}

EvalInit ==
  /\ pc = "start"
  /\ src \in VariableSources
  /\ arg \in Dicts
  /\ term = NoResult
  /\ at = 0
  /\ str = <<>>
  /\ term2 = NoResult
  /\ fn = <<>>
  /\ cmp = NoCompare
  /\ ode = NoOde
  /\ heap = NoHeap
  /\ matrix = NoMatrix
  /\ out = <<>>

\* Term.parse(src).eval(arg)
EvalVariable ==
  /\ pc = "start"
  /\ term' = parse(src)
  /\ out' = evalDefault(arg, term'.t.root)
  /\ pc' = "evaluated"
  /\ UNCHANGED <<src, at, str, term2, fn, cmp, ode, heap, matrix, arg>>

EvalNext == EvalVariable

EvalSpec == EvalInit /\ [][EvalNext]_vars

(***************************************************************************)
(* The errors of Term.eval in a pass of Term.compare                       *)
(***************************************************************************)
\* a source for every operator that the parser emits
OperatorSources ==
  {fun1Names[k] \o <<"(", "x", ")">> : k \in 1..Len(fun1Names)}
    \cup {fun1Names[k] \o <<" ", "y">> : k \in 1..Len(fun1Names)}
    \cup {<<"x", "+", "y">>, <<"x", "-", "y">>, <<"x", "*", "y">>,
          <<"x", "/", "y">>, <<"x", "^", "y">>, <<"-", "x">>,
          <<"|", "x", "|">>, <<"2", "x">>, <<"p", "i">>, <<"e", "^", "z">>,
          <<"I">>, <<"t", "r", "u", "e">>, <<"C", "1", "+", "C", "2">>,
          <<"_", "K">>, <<"1", ".", "5">>}

\* the second sources
OtherSources ==
  {<<"x">>, <<"2", "*", "y">>, <<"s", "i", "n", "h", "(", "z", ")">>,
   <<"f", "a", "l", "s", "e", "^", "e">>}

ThrownInit ==
  /\ pc = "start"
  /\ src \in OperatorSources
  /\ str \in OtherSources
  /\ cmp = NoCompare
  /\ term = NoResult
  /\ term2 = NoResult
  /\ at = 0
  /\ fn = <<>>
  /\ ode = NoOde
  /\ heap = NoHeap
  /\ matrix = NoMatrix
  /\ arg = <<>>
  /\ out = <<>>

\* the context of a pass of Term.compare and the errors of tu.eval(context)
\* and tv.eval(context)
ThrownInTrial ==
  /\ pc = "compare"
  /\ term.err = "" /\ term2.err = ""
  /\ \E draw \in [freeVars(cmp) -> RandomValues \X RandomValues] :
       /\ arg' = contextOf(cmp, draw)
       /\ out' = <<thrown(arg', cmp.tu), thrown(arg', cmp.tv)>>
  /\ pc' = "evaluated"
  /\ UNCHANGED <<src, term, at, str, term2, fn, cmp, ode, heap, matrix>>

ThrownNext == ParseBoth \/ ThrownInTrial

ThrownSpec == ThrownInit /\ [][ThrownNext]_vars

(***************************************************************************)
(* Matrix.resize                                                           *)
(***************************************************************************)
\* the calls of resize, fromString and fromMatrix in a behaviour
MaxResizes == 2

\* the numbers of rows and of columns that resize is called with
Sizes ==
  ((-1..3) \X (-1..3))
    \cup {<<50, 1>>, <<1, 50>>, <<51, 1>>, <<1, 51>>, <<50, 50>>, <<51, 51>>}

InitTerms == {<<"0">>, <<"x">>, <<>>}

MatrixInit ==
  /\ pc = "start"
  /\ matrix \in {newMatrix(1, 1), newMatrix(2, 1), newMatrix(2, 2)}
  /\ arg = <<>>
  /\ out = [returned |-> FALSE, before |-> NoMatrix, calls |-> 0]
  /\ src = <<>>
  /\ str = <<>>
  /\ term = NoResult
  /\ term2 = NoResult
  /\ at = 0
  /\ fn = <<>>
  /\ cmp = NoCompare
  /\ ode = NoOde
  /\ heap = NoHeap

\* matrix.resize(m, n, initTerm)
Resize ==
  /\ out.calls < MaxResizes
  /\ \E size \in Sizes, initTerm \in InitTerms :
       /\ arg' = [m |-> size[1], n |-> size[2], initTerm |-> initTerm]
       /\ matrix' = resize(matrix, size[1], size[2], initTerm).matrix
       /\ out' = [returned |-> resize(matrix, size[1], size[2], initTerm).returned,
                  before |-> matrix, calls |-> out.calls + 1]
  /\ pc' = "resized"
  /\ UNCHANGED <<src, term, at, str, term2, fn, cmp, ode, heap>>

\* the strings that fromString reads
MatrixStrings ==
  {<<"[", "[", "1", ",", "2", ",", "3", "]", ",", "[", "4", ",", "5", ",", "6", "]", "]">>,
   <<"[", "[", "1", ",", "2", "]", ",", "[", "3", "]", "]">>,
   <<"[", "[", "x", "]", "]">>,
   <<"[", "[", " ", "1", " ", ",", " ", "2", " ", "]", "]">>,
   <<"[", "[", "1", "\r", ",", "\f", "2", "\\u00a0", "]", "]">>,
   <<"[", "[", "1", "]", ",", "[", "2", "]", "]">>,
   <<"[", "1", ",", "2", "]", ",">>,
   <<>>}

\* the matrices that fromMatrix imports
Imported ==
  {newMatrix(1, 1), [m |-> 2, n |-> <<1, 1>>, v |-> <<<<"p">>, <<"q">>>>],
   fromString(<<"[", "[", "1", ",", "2", ",", "3", "]", ",", "[", "4", ",", "5", ",", "6", "]", "]">>)}

\* matrix.fromString(s)
FromString ==
  /\ out.calls < MaxResizes
  /\ \E s \in MatrixStrings :
       /\ arg' = [s |-> s]
       /\ matrix' = fromString(s)
  /\ out' = [out EXCEPT !.before = matrix, !.calls = @ + 1]
  /\ pc' = "read"
  /\ UNCHANGED <<src, term, at, str, term2, fn, cmp, ode, heap>>

\* matrix.fromMatrix(mat)
FromMatrix ==
  /\ out.calls < MaxResizes
  /\ \E mat \in Imported :
       /\ arg' = [mat |-> mat]
       /\ matrix' = fromMatrix(mat)
  /\ out' = [out EXCEPT !.before = matrix, !.calls = @ + 1]
  /\ pc' = "imported"
  /\ UNCHANGED <<src, term, at, str, term2, fn, cmp, ode, heap>>

MatrixNext == Resize \/ FromString \/ FromMatrix

MatrixSpec == MatrixInit /\ [][MatrixNext]_vars

(***************************************************************************)
(* prepareODEconstantComparison on a parsed term                           *)
(***************************************************************************)
\* the operands of the sources
Operands == {<<"C">>, <<"C", "1">>, <<"C", "2">>, <<"x">>, <<"3">>, <<"p", "i">>}

\* the sources: a binary operation and a function on the operands, the minus,
\* the bars, and the term of the test of prepareODEconstantComparison
PrepareSources ==
  {a \o op \o b : a \in Operands, b \in Operands,
                  op \in {<<"+">>, <<"-">>, <<"*">>, <<"/">>, <<"^">>}}
    \cup {fun1Names[k] \o <<"(">> \o a \o <<")">> :
            k \in 1..Len(fun1Names), a \in Operands}
    \cup {<<"-">> \o a : a \in Operands}
    \cup {<<"|">> \o a \o <<"|">> : a \in Operands}
    \cup {<<"s", "i", "n", "(", "C", "+", "3", ")", "*", "x">>,
          <<"e", "x", "p", "(", "C", "*", "C", ")", "+", "C", "1">>}
    \cup {<<"s", "i", "n", "(", "e", "x", "p", "(", "c", "o", "s", "(", "C",
     "+", "3", ")", ")", ")", " ", "+", " ", "3", "*", "C", "1", " ", "+",
     " ", "s", "i", "n", "(", "C", "1", "+", "C", "2", ")">>}

PrepareInit ==
  /\ pc = "start"
  /\ src \in PrepareSources
  /\ term = NoResult
  /\ at = 0
  /\ str = <<>>
  /\ term2 = NoResult
  /\ fn = <<>>
  /\ cmp = NoCompare
  /\ ode = NoOde
  /\ heap = NoHeap
  /\ matrix = NoMatrix
  /\ arg = <<>>
  /\ out = <<>>

\* prepareODEconstantComparison(term.root) for the term parsed
Prepare ==
  /\ pc = "parsed"
  /\ out' = prepareODEconstantComparison(term.t.root)
  /\ pc' = "prepared"
  /\ UNCHANGED <<src, term, at, str, term2, fn, cmp, ode, heap, matrix, arg>>

PrepareNext == Parse \/ Prepare

PrepareSpec == PrepareInit /\ [][PrepareNext]_vars

(***************************************************************************)
(* heapsAlgorithm(range(N), result)                                        *)
(***************************************************************************)
\* the largest N
MaxConstants == 4

HeapsInit ==
  /\ pc = "start"
  /\ arg \in 0..MaxConstants
  /\ out = <<>>
  /\ src = <<>>
  /\ str = <<>>
  /\ term = NoResult
  /\ term2 = NoResult
  /\ at = 0
  /\ fn = <<>>
  /\ cmp = NoCompare
  /\ ode = NoOde
  /\ heap = NoHeap
  /\ matrix = NoMatrix

\* let constantPermutations = []; heapsAlgorithm(range(N), constantPermutations)
HeapsStart ==
  /\ pc = "start"
  /\ out' = heapsStart(range(arg), <<>>, -1)
  /\ pc' = "heaps"
  /\ UNCHANGED <<src, term, at, str, term2, fn, cmp, ode, heap, matrix, arg>>

HeapsPush ==
  /\ pc = "heaps"
  /\ Len(out.stack) > 0
  /\ out.stack[1].in = "loop" /\ out.stack[1].k = 1
  /\ out' = heapsPush(out)
  /\ UNCHANGED <<pc, src, term, at, str, term2, fn, cmp, ode, heap, matrix, arg>>

HeapsCall ==
  /\ pc = "heaps"
  /\ Len(out.stack) > 0
  /\ out.stack[1].in = "loop" /\ out.stack[1].k # 1
  /\ out.stack[1].i < out.stack[1].k
  /\ out' = heapsCall(out)
  /\ UNCHANGED <<pc, src, term, at, str, term2, fn, cmp, ode, heap, matrix, arg>>

HeapsSwap ==
  /\ pc = "heaps"
  /\ Len(out.stack) > 0
  /\ out.stack[1].in = "call"
  /\ out' = heapsSwap(out)
  /\ UNCHANGED <<pc, src, term, at, str, term2, fn, cmp, ode, heap, matrix, arg>>

HeapsReturn ==
  /\ pc = "heaps"
  /\ Len(out.stack) > 0
  /\ out.stack[1].in = "loop" /\ out.stack[1].k # 1
  /\ out.stack[1].i >= out.stack[1].k
  /\ out' = heapsReturn(out)
  /\ UNCHANGED <<pc, src, term, at, str, term2, fn, cmp, ode, heap, matrix, arg>>

\* the outermost call has returned
HeapsDone ==
  /\ pc = "heaps"
  /\ Len(out.stack) = 0
  /\ pc' = "done"
  /\ UNCHANGED <<src, term, at, str, term2, fn, cmp, ode, heap, matrix, arg, out>>

HeapsNext ==
  \/ HeapsStart \/ HeapsPush \/ HeapsCall \/ HeapsSwap \/ HeapsReturn
  \/ HeapsDone

HeapsSpec == HeapsInit /\ [][HeapsNext]_vars

(***************************************************************************)
(* The renaming of the constants in compareODE                             *)
(***************************************************************************)
\* sources with the constants C, C1 and C2 in several orders
RenameSources ==
  {<<"C", "1", "*", "x", "+", "C">>,
   <<"C", "*", "x", "+", "C", "1">>,
   <<"C", "+", "C", "2", "*", "x", "+", "C", "1", "*", "y">>,
   <<"C", "1", "+", "C", "2", "*", "C">>,
   <<"C", "*", "x">>,
   <<"C", "1", "*", "x">>,
   <<"_", "C", "0", "+", "C", "1">>,
   <<"_", "_", "C", "1", "*", "C">>,
   <<"C", "2", "*", "K", "+", "C">>,
   <<"x", "+", "y">>,
   <<"C">>,
   <<"C", "2", "-", "C", "1", "/", "x">>}

RenameInit ==
  /\ pc = "start"
  /\ src \in RenameSources
  /\ str \in RenameSources
  /\ cmp = NoCompare
  /\ term = NoResult
  /\ term2 = NoResult
  /\ at = 0
  /\ fn = <<>>
  /\ ode = NoOde
  /\ heap = NoHeap
  /\ matrix = NoMatrix
  /\ arg = <<>>
  /\ out = <<>>

\* compareODE from `if (Term.compare(tu, tv)) return true` to the loop over
\* the permutations: compare returns false when a pass of its loop finds a
\* difference above EPS under the values that it draws
RenameCanonical ==
  /\ pc = "compare"
  /\ ~ \A draw \in [freeVars(cmp) -> RandomValues \X RandomValues] :
         trialWithin(cmp, contextOf(cmp, draw)).result # "false"
  /\ ode' = odePrepared([NoOde EXCEPT !.tu = term.t.root, !.tv = term2.t.root])
  /\ pc' = "permutations"
  /\ UNCHANGED <<src, term, at, str, term2, fn, cmp, heap, matrix, arg, out>>

\* the renaming of tvClone in the pass of the loop for a permutation
RenamePermutation ==
  /\ pc = "permutations"
  /\ \E p \in 1..Len(ode.constantPermutations) :
       /\ arg' = ode.constantPermutations[p]
       /\ out' = permuted(ode.tv, ode.constantPermutations[p])
  /\ pc' = "permuted"
  /\ UNCHANGED <<src, term, at, str, term2, fn, cmp, ode, heap, matrix>>

RenameNext == ParseBoth \/ RenameCanonical \/ RenamePermutation

RenameSpec == RenameInit /\ [][RenameNext]_vars

(***************************************************************************)
(* minimize, one pass of its loop at a time                                *)
(*                                                                         *)
(* The activation is the record of cnt, dvValue, step and lastDirection,   *)
(* of the values seen = <<y, yRight, yLeft>> that the last pass has        *)
(* computed, and of the array returned.  The passes are followed up to     *)
(* MaxIterations and where their comparisons are decided; a loop that      *)
(* stands still goes to its end after MAX_ITERATIONS passes in one step.   *)
(* Each of these passes has the direction 0 and halves step, down to a     *)
(* power of two that the rationals of the model have no denominator for:   *)
(* the field halvings counts them, and the step of the code is             *)
(* step / 2^halvings, which is a double for every step >= 2^-74.  The      *)
(* bindings y, yRight and yLeft are those of the body of the loop: seen    *)
(* is empty before the first pass and after the loop.  arg.vars is the     *)
(* object vars of the caller, in which minimize assigns vars[dvId].        *)
(***************************************************************************)
\* the sources of the terms to minimize in K
ObjectiveSources ==
  {<<"|", "x", "-", "2", "*", "K", "*", "x", "|">>,
   <<"|", "x", "-", "K", "*", "x", "/", "2", "|">>,
   <<"|", "x", "-", "K", "|">>,
   <<"|", "K", "*", "K", "+", "1", "|">>,
   <<"|", "x", "/", "K", "-", "x", "|">>,
   <<"|", "K", "+", "3", "|">>,
   <<"|", "x", "+", "5", "*", "K", "|">>,
   <<"|", "K", "-", "x", "*", "x", "|">>,
   <<"|", "x", "+", "0", "*", "K", "|">>,
   <<"|", "K", "-", "0", ".", "6", "2", "5", "|">>}

MinimizeInit ==
  /\ pc = "start"
  /\ src \in ObjectiveSources
  /\ \E r \in RandomValues \X RandomValues :
       arg = [dvId |-> <<"K">>, vars |-> <<"x">> :> const(r[1], r[2])]
  /\ out = [cnt |-> 0, dvValue |-> Zero, step |-> One, halvings |-> 0,
            lastDirection |-> InitialDirection, seen |-> <<>>, returned |-> <<>>]
  /\ str = <<>>
  /\ term = NoResult
  /\ term2 = NoResult
  /\ at = 0
  /\ fn = <<>>
  /\ cmp = NoCompare
  /\ ode = NoOde
  /\ heap = NoHeap
  /\ matrix = NoMatrix

\* the value y is a value of eval
valued(y) == y.p # "lost" /\ err(y) <= Tolerance

\* the end of a pass that has seen the three values: the move, and the
\* break or the step of the next pass
PassedTo(seen, direction, left) ==
  IF left
  THEN /\ out' = [out EXCEPT !.seen = seen,
                             !.dvValue = moved(@, out.step, direction)]
       /\ pc' = "left"
  ELSE /\ out' = [out EXCEPT !.seen = seen,
                             !.dvValue = moved(@, out.step, direction),
                             !.step = halved(@, direction, out.lastDirection),
                             !.lastDirection = direction,
                             !.cnt = @ + 1]
       /\ pc' = "parsed"

\* a pass from the three values of the term on, where the model decides
\* its comparisons
Passed(y, yRight, yLeft) ==
  /\ valued(y) /\ valued(yRight) /\ valued(yLeft)
  /\ comparable(y, yRight, yLeft)
  /\ belowEps(lowest(y, yRight, yLeft)) # "unknown"
  /\ PassedTo(<<y.res.re, yRight.res.re, yLeft.res.re>>,
              directionOf(y, yRight, yLeft),
              belowEps(lowest(y, yRight, yLeft)) = "true")

\* vars after `vars[dvId] = TermNode.const(x)`
assigned(dict, dvId, x) == (dvId :> const(x, Zero)) @@ dict

\* a pass of the loop of minimize; the last of its three assignments to
\* vars[dvId] is the one of dvValue - step
MinimizePass ==
  /\ pc = "parsed"
  /\ out.cnt < MaxIterations /\ out.cnt < MAX_ITERATIONS
  /\ Passed(objectiveWithin(term.t, arg.dvId, arg.vars, out.dvValue),
            objectiveWithin(term.t, arg.dvId, arg.vars, Add(out.dvValue, out.step)),
            objectiveWithin(term.t, arg.dvId, arg.vars, Sub(out.dvValue, out.step)))
  /\ arg' = [arg EXCEPT !.vars = assigned(@, arg.dvId, Sub(out.dvValue, out.step))]
  /\ UNCHANGED <<src, term, at, str, term2, fn, cmp, ode, heap, matrix>>

\* the return of the end m of minimize from the activation o, in which the
\* loop has ended
Returned(m, o) ==
  /\ m.known
  /\ out' = [o EXCEPT !.returned = <<m.dvValue, m.y>>, !.seen = <<>>]
  /\ pc' = "returned"

\* the activation after the passes from out.cnt up to MAX_ITERATIONS of a
\* loop that stands still: each of them ends with `step /= 2.0`,
\* `lastDirection = direction` for the direction 0, and `cnt++`
stoodStill(o) ==
  [o EXCEPT !.halvings = @ + (MAX_ITERATIONS - o.cnt),
            !.lastDirection = 0,
            !.cnt = MAX_ITERATIONS]

\* the end of minimize after the loop: after the break, or after the passes
\* up to MAX_ITERATIONS of a loop that stands still; vars[dvId] is left at
\* the dvValue returned
MinimizeReturn ==
  /\ \/ pc = "left"
     \/ /\ pc = "parsed"
        /\ standsStill(term.t, arg.dvId, arg.vars,
                       objectiveWithin(term.t, arg.dvId, arg.vars, out.dvValue))
  /\ Returned(ended(out.dvValue,
                    objectiveWithin(term.t, arg.dvId, arg.vars, out.dvValue),
                    IF pc = "left" THEN out.cnt ELSE MAX_ITERATIONS),
              IF pc = "left" THEN out ELSE stoodStill(out))
  /\ arg' = [arg EXCEPT !.vars = assigned(@, arg.dvId, out.dvValue)]
  /\ UNCHANGED <<src, term, at, str, term2, fn, cmp, ode, heap, matrix>>

MinimizeNext == Parse \/ MinimizePass \/ MinimizeReturn

MinimizeSpec == MinimizeInit /\ [][MinimizeNext]_vars

(***************************************************************************)
(* Term.next(), token by token through a source                            *)
(*                                                                         *)
(* out is the sequence of the calls of next() made so far: the token that  *)
(* a call has left in this.token, this.skippedWhiteSpace, and this.pos     *)
(* before and after the call.                                              *)
(***************************************************************************)
LexerChars == {"1", "2", "C", "x", "p", " ", "\t", "+", "_"}

RECURSIVE LexerStrings(_)
LexerStrings(n) ==
  IF n = 0 THEN {<<>>}
  ELSE LexerStrings(n - 1)
       \cup {Append(s, ch) : s \in {u \in LexerStrings(n - 1) : Len(u) = n - 1},
                             ch \in LexerChars}

\* every delimiter between a name and a number, and longer constant names
LexerSources ==
  LexerStrings(MaxLen + 1)
  \cup {<<"x", d, "1">> : d \in Delimiters \ WhiteSpace}
  \cup {<<"2", "p", "i">>, <<"C", "1", "2", "+", "x">>, <<"C", "1", "2", "3">>,
        <<"x", "1", "2">>, <<"c", "1">>, <<"C", "1", "x", "2">>,
        <<"\n", "p", "i", "\n", "2">>}

LexerInit ==
  /\ pc = "start"
  /\ src \in LexerSources
  /\ term = [t |-> newTerm(src), err |-> ""]
  /\ out = <<>>
  /\ at = 0
  /\ str = <<>>
  /\ term2 = NoResult
  /\ fn = <<>>
  /\ cmp = NoCompare
  /\ ode = NoOde
  /\ heap = NoHeap
  /\ matrix = NoMatrix
  /\ arg = <<>>

\* this.next()
NextToken ==
  /\ pc \in {"start", "token"}
  /\ term' = [term EXCEPT !.t = next(@, -1)]
  /\ out' = Append(out, [token |-> term'.t.token,
                         skippedWhiteSpace |-> term'.t.skippedWhiteSpace,
                         from |-> term.t.pos, pos |-> term'.t.pos])
  /\ pc' = IF term'.t.token = <<>> THEN "end" ELSE "token"
  /\ UNCHANGED <<src, at, str, term2, fn, cmp, ode, heap, matrix, arg>>

LexerNext == NextToken

LexerSpec == LexerInit /\ [][LexerNext]_vars

(***************************************************************************)
(* Term.parse on a power of a power and on a product with a power          *)
(*                                                                         *)
(* arg holds the sources a, b and c of three factors, the operator between *)
(* a and b, and whether blanks surround the operators; src is a^b^c or     *)
(* a*b^c and str is the same source with parentheses.                      *)
(***************************************************************************)
\* numbers, names, groups, absolute values and functions with parentheses
Factors ==
  {<<"x">>,
   <<"3">>,
   <<"2", ".", "5">>,
   <<"(", "x", "+", "1", ")">>,
   <<"|", "x", "|">>,
   <<"s", "i", "n", "(", "x", ")">>,
   <<"p", "i">>,
   <<"C", "1">>,
   <<"(", "2", "^", "x", ")">>,
   <<"(", "x", "*", "y", ")">>}

spaced(op, blanks) == IF blanks THEN <<" ">> \o op \o <<" ">> ELSE op

PowInit ==
  /\ pc = "start"
  /\ arg \in [a : Factors, b : Factors, c : Factors, op : {<<"^">>, <<"*">>},
              blanks : BOOLEAN]
  /\ src = arg.a \o spaced(arg.op, arg.blanks) \o arg.b
             \o spaced(<<"^">>, arg.blanks) \o arg.c
  /\ str = IF arg.op = <<"^">>
           THEN <<"(">> \o arg.a \o spaced(arg.op, arg.blanks) \o arg.b \o <<")">>
                  \o spaced(<<"^">>, arg.blanks) \o arg.c
           ELSE arg.a \o spaced(arg.op, arg.blanks) \o <<"(">> \o arg.b
                  \o spaced(<<"^">>, arg.blanks) \o arg.c \o <<")">>
  /\ term = NoResult
  /\ term2 = NoResult
  /\ at = 0
  /\ fn = <<>>
  /\ cmp = NoCompare
  /\ ode = NoOde
  /\ heap = NoHeap
  /\ matrix = NoMatrix
  /\ out = <<>>

PowNext == ParseBoth

PowSpec == PowInit /\ [][PowNext]_vars

(***************************************************************************)
(* Term.eval on an inverse function                                        *)
(*                                                                         *)
(* arg holds the operator of the node and the value u of its operand; out  *)
(* is the term tn that the case of the operator has built.                 *)
(***************************************************************************)
InverseOps ==
  {<<"a", "c", "o", "s">>, <<"a", "c", "o", "s", "h">>, <<"a", "s", "i", "n">>, <<"a", "s", "i", "n", "h">>, <<"a", "t", "a", "n">>, <<"a", "t", "a", "n", "h">>}

OperandValues ==
  {const(re, im) : re \in {Zero, One, Rat(1, 2), Rat(-1, 4), Rat(2, 1)},
                   im \in {Zero, One, Rat(1, 4), Rat(-1, 2)}}

InverseInit ==
  /\ pc = "start"
  /\ arg \in [op : InverseOps, u : OperandValues]
  /\ out = <<>>
  /\ src = <<>>
  /\ str = <<>>
  /\ term = NoResult
  /\ term2 = NoResult
  /\ at = 0
  /\ fn = <<>>
  /\ cmp = NoCompare
  /\ ode = NoOde
  /\ heap = NoHeap
  /\ matrix = NoMatrix

\* the case of arg.op in the inner switch of eval, up to the call of eval
\* on tn
EvalInverse ==
  /\ pc = "start"
  /\ out' = inverseTerm(arg.op, arg.u)
  /\ pc' = "built"
  /\ UNCHANGED <<src, term, at, str, term2, fn, cmp, ode, heap, matrix, arg>>

InverseNext == EvalInverse

InverseSpec == InverseInit /\ [][InverseNext]_vars

(***************************************************************************)
(* clone, renameVar, setVars and prepareODEconstantComparison on a parsed  *)
(* term, in any order; at counts the calls                                 *)
(***************************************************************************)
MaxCalls == 2

AritySources ==
  PrepareSources \cup RenameSources \cup MoreSources
  \cup {C5Examples[k][1] : k \in 1..Len(C5Examples)}

\* pairs <<oldName, newName>> of renameVar
Renamings ==
  {<<<<"C">>, <<"C", "1">>>>, <<<<"x">>, <<"C">>>>, <<<<"C", "1">>, <<"K">>>>}

\* the dictionaries of setVars: values as compare and compareODE set them
Assignments ==
  {<<"x">> :> const(Rat(1, 2), Rat(1, 4)),
   <<"C">> :> parse(<<"K", "*", "C">>).t.root,
   (<<"C">> :> const(Zero, Zero)) @@ (<<"C", "1">> :> const(One, Zero))}

ArityInit ==
  /\ pc = "start"
  /\ src \in AritySources
  /\ at = 0
  /\ term = NoResult
  /\ str = <<>>
  /\ term2 = NoResult
  /\ fn = <<>>
  /\ cmp = NoCompare
  /\ ode = NoOde
  /\ heap = NoHeap
  /\ matrix = NoMatrix
  /\ arg = <<>>
  /\ out = <<>>

\* term = term.clone()
CloneTerm ==
  /\ pc \in {"start", "parsed"} /\ at < MaxCalls
  /\ term' = clone(term.t)
  /\ at' = at + 1
  /\ pc' = IF term'.err = "" THEN pc ELSE "failed"
  /\ UNCHANGED <<src, str, term2, fn, cmp, ode, heap, matrix, arg, out>>

\* term.renameVar(oldName, newName)
RenameVar ==
  /\ pc = "parsed" /\ at < MaxCalls
  /\ \E r \in Renamings :
       term' = [term EXCEPT !.t.root = renameVar(r[1], r[2], @)]
  /\ at' = at + 1
  /\ UNCHANGED <<pc, src, str, term2, fn, cmp, ode, heap, matrix, arg, out>>

\* term.setVars(dict)
SetVars ==
  /\ pc = "parsed" /\ at < MaxCalls
  /\ \E dict \in Assignments :
       term' = [term EXCEPT !.t.root = setVars(dict, @)]
  /\ at' = at + 1
  /\ UNCHANGED <<pc, src, str, term2, fn, cmp, ode, heap, matrix, arg, out>>

\* prepareODEconstantComparison(term.root)
PrepareConstants ==
  /\ pc = "parsed" /\ at < MaxCalls
  /\ term' = [term EXCEPT !.t.root = prepareODEconstantComparison(@)]
  /\ at' = at + 1
  /\ UNCHANGED <<pc, src, str, term2, fn, cmp, ode, heap, matrix, arg, out>>

ArityNext == Parse \/ CloneTerm \/ RenameVar \/ SetVars \/ PrepareConstants

AritySpec == ArityInit /\ [][ArityNext]_vars

(***************************************************************************)
(* compareODE on terms with up to three constants and on terms with other  *)
(* names that start with C                                                 *)
(***************************************************************************)
\* sources with names that start with C
ConstantSources ==
  {<<"C", "*", "C", "1", "*", "C", "2", "*", "C", "3">>,
   <<"C", "0", "+", "C", "1", "2">>,
   <<"C", "x", "+", "C", "C">>,
   <<"C", "3", "x", "+", "C", "2">>,
   <<"c", "1", "+", "C">>,
   <<"C", " ", "1", "+", "C", "2", " ", "2">>,
   <<"C", "1", "C", "2", "C">>,
   <<"C", "I", "+", "C", "_", "1">>,
   <<"C", "9", "-", "C", "1", "0">>,
   <<"C", "a", "*", "C", "b">>,
   <<"C", "+", "C", "1", "+", "C", "2", "+", "C", "4", "+", "C", "5">>}

SearchPairs ==
  {<<s, s>> : s \in ConstantSources}
  \cup {<<<<"C", "*", "C", "1", "+", "C", "2">>,
          <<"C", "2", "*", "C", "1", "+", "C">>>>,
        <<<<"C", "*", "x">>, <<"C", "*", "x", "/", "2">>>>,
        <<<<"x">>, <<"2", "x">>>>}

SearchInit ==
  /\ pc = "start"
  /\ \E pair \in SearchPairs : src = pair[1] /\ str = pair[2]
  /\ term = NoResult
  /\ term2 = NoResult
  /\ at = 0
  /\ fn = <<>>
  /\ cmp = NoCompare
  /\ ode = NoOde
  /\ heap = NoHeap
  /\ matrix = NoMatrix
  /\ arg = <<>>
  /\ out = <<>>

SearchSpec == SearchInit /\ [][OdeNext]_vars

(***************************************************************************)
(* The number branch of Term.parseInfix                                    *)
(*                                                                         *)
(* After the first next() the identifier branch may take a name from the   *)
(* front of the token; the number branch then starts at the offset `at` of *)
(* src, and out is what it returns.                                        *)
(***************************************************************************)
LiteralChars == {"2", "5", ".", "x", "(", "+", " "}

RECURSIVE LiteralStrings(_)
LiteralStrings(n) ==
  IF n = 0 THEN {<<>>}
  ELSE LiteralStrings(n - 1)
       \cup {Append(s, ch) : s \in {u \in LiteralStrings(n - 1) : Len(u) = n - 1},
                             ch \in LiteralChars}

LiteralSources ==
  {s \in LiteralStrings(MaxLen + 1) : Len(s) > 0 /\ isNum(s[1])}
  \cup {<<"C", "3", "x">>, <<"C", "3", "x", "y">>, <<"2", ".", ")">>,
        <<"2", ".", "5", "x">>, <<"2", ".", "s", "i", "n">>,
        <<"x", "2", ".", "5">>, <<"2", ".", "|">>, <<"2", ".", "*">>}

LiteralInit ==
  /\ pc = "start"
  /\ src \in LiteralSources
  /\ term = NoResult
  /\ at = 0
  /\ str = <<>>
  /\ term2 = NoResult
  /\ fn = <<>>
  /\ cmp = NoCompare
  /\ ode = NoOde
  /\ heap = NoHeap
  /\ matrix = NoMatrix
  /\ arg = <<>>
  /\ out = <<>>

\* the identifier branch of parseInfix on the first token
ParseIdentifier ==
  /\ pc = "lexed"
  /\ Len(term.t.token) > 0 /\ isAlpha(term.t.token[1])
  /\ Len(fun1(term.t.token)) = 0
  /\ term' = [term EXCEPT !.t = next(@, Len(identifierOf(term.t.token)))]
  /\ pc' = "multiplied"
  /\ UNCHANGED <<src, at, str, term2, fn, cmp, ode, heap, matrix, arg, out>>

\* the number branch of parseInfix, on the first token or on the token that
\* parseMul multiplies implicitly with the identifier
ParseNumber ==
  /\ pc \in {"lexed", "multiplied"}
  /\ Len(term.t.token) > 0 /\ isNum(term.t.token[1])
  /\ at' = term.t.pos - Len(term.t.token)
  /\ out' = parseNumber(term.t)
  /\ pc' = "number"
  /\ UNCHANGED <<src, term, str, term2, fn, cmp, ode, heap, matrix, arg>>

LiteralNext == Lex \/ ParseIdentifier \/ ParseNumber

LiteralSpec == LiteralInit /\ [][LiteralNext]_vars

(***************************************************************************)
(* prepareODEconstantComparison twice on a parsed term; arg is the tree    *)
(* after the second call                                                   *)
(***************************************************************************)
\* prepareODEconstantComparison(term.root) once more
PrepareAgain ==
  /\ pc = "prepared"
  /\ arg' = prepareODEconstantComparison(out)
  /\ pc' = "again"
  /\ UNCHANGED <<src, term, at, str, term2, fn, cmp, ode, heap, matrix, out>>

FixpointNext == Parse \/ Prepare \/ PrepareAgain

FixpointSpec == PrepareInit /\ [][FixpointNext]_vars

log == term.t.log

\* a token at which parsePow or parseMul goes on unless white space stops
\* it: an operator, or the first token of an implicitly multiplied factor,
\* which is a group, a name or a number
continues(token) ==
  \/ token \in {<<"*">>, <<"/">>, <<"^">>, <<"(">>}
  \/ Len(token) > 0 /\ (isAlpha(token[1]) \/ isNum(token[1]))

Source(k) == C5Examples[k][1]
Expected(k) == C5Examples[k][2]

\* C5: a function argument without parentheses is parsed by parseMul with
\* stopAtSpace = true.  It takes in no operator and no implicitly multiplied
\* factor that follows white space, it ends at white space whenever the token
\* at its end would continue a product or a power, its root is no binary + or
\* -, and the operand after an explicit operator is part of it.  The six
\* sources of the test table parse to the trees of their right sides, and
\* "sin 2pi" and "sin 2 pi" parse to different trees.
C5_FunctionScoping ==
  pc = "parsed" =>
    /\ \A k \in 1..Len(log) :
         /\ log[k].kind \in {"op", "mul"} /\ log[k].stopAtSpace
              => ~log[k].skippedWhiteSpace
         /\ log[k].kind = "arg"
              => /\ log[k].op \notin {<<"+">>, <<"-">>}
                 /\ continues(log[k].token) => log[k].skippedWhiteSpace
         /\ log[k].kind = "op" /\ log[k].stopAtSpace
              => \E j \in (k + 1)..Len(log) :
                   log[j].kind = "arg" /\ log[j].at >= log[k].at + 2
    /\ \A k \in 1..Len(C5Examples) :
         src = Source(k)
           => structure(term.t.root) = structure(parse(Expected(k)).t.root)
    /\ src = Source(1)
         => structure(term.t.root) # structure(parse(Source(2)).t.root)

\* the line `sin 2(pi) == sin(2)*pi` of the test table
GroupSource == <<"s", "i", "n", " ", "2", "(", "p", "i", ")">>
GroupExpected == <<"s", "i", "n", "(", "2", ")", "*", "p", "i">>

\* C5, with the group: a function argument without parentheses is parsed by
\* parseMul with stopAtSpace = true.  It takes in no operator and no
\* implicitly multiplied factor that follows white space, and no group as
\* an implicitly multiplied factor at all; it ends at white space whenever
\* the token at its end would continue a product or a power and is no "(",
\* its root is no binary + or -, and the operand after an explicit operator
\* is part of it.  The six sources of the test table parse to the trees of
\* their right sides, "sin 2pi" and "sin 2 pi" parse to different trees, and
\* "sin 2(pi)" parses to the tree of "sin(2)*pi".
C5_FunctionScopingButGroup ==
  pc = "parsed" =>
    /\ \A k \in 1..Len(log) :
         /\ log[k].kind \in {"op", "mul"} /\ log[k].stopAtSpace
              => ~log[k].skippedWhiteSpace
         /\ log[k].kind = "mul" /\ log[k].stopAtSpace
              => log[k].token # <<"(">>
         /\ log[k].kind = "arg"
              => /\ log[k].op \notin {<<"+">>, <<"-">>}
                 /\ continues(log[k].token) /\ log[k].token # <<"(">>
                      => log[k].skippedWhiteSpace
         /\ log[k].kind = "op" /\ log[k].stopAtSpace
              => \E j \in (k + 1)..Len(log) :
                   log[j].kind = "arg" /\ log[j].at >= log[k].at + 2
    /\ \A k \in 1..Len(C5Examples) :
         src = Source(k)
           => structure(term.t.root) = structure(parse(Expected(k)).t.root)
    /\ src = Source(1)
         => structure(term.t.root) # structure(parse(Source(2)).t.root)
    /\ src = GroupSource
         => /\ structure(term.t.root) = structure(parse(GroupExpected).t.root)
            /\ \E k \in 1..Len(log) :
                 /\ log[k].kind = "arg" /\ log[k].token = <<"(">>
                 /\ ~log[k].skippedWhiteSpace

\* C5: "sin 2*pi *5" has been parsed: the argument holds the product 2*pi
\* and ends at the "*" that follows white space
C5_Witness ==
  /\ pc = "parsed"
  /\ src = Source(3)
  /\ \E k \in 1..Len(log) :
       /\ log[k].kind = "arg" /\ log[k].op = <<"*">>
       /\ log[k].token = <<"*">> /\ log[k].skippedWhiteSpace

\* C6: the argument of a function call fn(...) is parsed with
\* stopAtSpace = false wherever the call stands, and white space inside the
\* parentheses does not make the parse fail: "sin cos(x + y)" is parsed.
C6_ParenthesizedArgument ==
  pc \in {"parsed", "failed"} =>
    /\ \A k \in 1..Len(log) :
         log[k].kind = "open" /\ log[k].op \notin {<<"(">>, <<"|">>}
           => ~log[k].stopAtSpace
    /\ src \in {<<"s", "i", "n", " ", "c", "o", "s", "(", "x", " ", "+", " ", "y", ")">>}
         => pc = "parsed"

\* C7: with an explicit "*" written where the parser multiplied implicitly,
\* the source is parsed to the same tree.
C7_ImplicitMultiplication ==
  pc = "starred" =>
    /\ term2.err = ""
    /\ structure(term2.t.root) = structure(term.t.root)

ParseErrors ==
  {"expected unary", "expected ')'", "expected '|'", "remaining tokens"}

count(kind) == Cardinality({k \in 1..Len(log) : log[k].kind = kind})

\* C8: Term.parse returns a Term only when the current token is empty, the
\* lexer is at the end of the source and every group that was opened has
\* been closed; otherwise it raises one of its errors.  A source without a
\* token raises, a token that cannot start a factor raises, and a token
\* that is left over after the expression raises.
C8_ParseConsumesOrRaises ==
  /\ pc = "parsed" =>
       /\ term.err = ""
       /\ term.t.token = <<>>
       /\ term.t.pos = Len(src)
       /\ count("open") = count("close")
       /\ \E k \in 1..Len(src) : src[k] \notin WhiteSpace
  /\ pc = "failed" =>
       /\ term.err \in ParseErrors
       /\ term.err = "remaining tokens" => term.t.token # <<>>
       /\ term.err = "expected unary" =>
            \/ term.t.token = <<>>
            \/ ~(isNum(term.t.token[1]) \/ isAlpha(term.t.token[1]))
       /\ term.err = "expected ')'" => term.t.token # <<")">>
       /\ term.err = "expected '|'" => term.t.token # <<"|">>
  /\ pc \in {"parsed", "failed"}
       /\ (\A k \in 1..Len(src) : src[k] \in WhiteSpace)
       => pc = "failed" /\ term.err = "expected unary"

\* C8: a source with a token after the expression has been rejected
C8_Witness ==
  /\ pc = "failed"
  /\ term.err = "remaining tokens"
  /\ term.t.token = <<")">>

(***************************************************************************)
(* Properties of fun1, compare and the round trip                          *)
(***************************************************************************)
\* C4: fun1 returns the longest name of its list that the token starts
\* with, whatever the case of the letters, and every name of the list is
\* returned for the source that spells it.
C4_LongestFunctionName ==
  pc = "recognized" =>
    /\ \A k \in 1..Len(fun1Names) :
         startsWith(toLowerCase(term.t.token), fun1Names[k])
           => Len(fn) >= Len(fun1Names[k])
    /\ \A k \in 1..Len(fun1Names) :
         toLowerCase(src) = fun1Names[k] => fn = fun1Names[k]

\* a number with a NaN or infinite part
nonFinite(node) == ~isFinite(node.re) \/ ~isFinite(node.im)

\* the last pass of compare has been counted as passed
passed == pc = "compare" /\ cmp.i > 0 /\ cmp.result # "false"

\* C2: a pass of compare in which an evaluation has a NaN or infinite part
\* is never counted as passed: compare returns false in it.
C2_NonFiniteRejected ==
  passed => ~nonFinite(cmp.r1) /\ ~nonFinite(cmp.r2)

\* C3: compare runs at most NUM_TESTS = 10 passes.  In every pass the context
\* binds exactly the variables of both terms, a variable of
\* predefinedContext to its value there and any other one to drawn numbers,
\* and both terms are evaluated under it.  compare has returned false exactly
\* when the last pass exceeded EPS, and true exactly when 10 passes have run
\* and all 10 were within EPS.
C3_TenTrials ==
  pc = "compare" =>
    /\ cmp.i <= NUM_TESTS
    /\ cmp.i > 0 \/ cmp.result = "false" =>
         /\ DOMAIN cmp.context = Elements(cmp.vars)
         /\ \A v \in DOMAIN cmp.context :
              IF v \in DOMAIN cmp.predefinedContext
              THEN cmp.context[v] = cmp.predefinedContext[v]
              ELSE /\ cmp.context[v].re \in RandomValues
                   /\ cmp.context[v].im \in RandomValues
         /\ cmp.r1 = eval(cmp.context, cmp.tu)
         /\ cmp.r2 = eval(cmp.context, cmp.tv)
    /\ cmp.result = "false" <=>
         (cmp.i < NUM_TESTS /\ cmp.within = cmp.i
          /\ GreaterPow10(cmp.abs, CompareEpsDigits))
    /\ cmp.result = "true" <=>
         (cmp.i = NUM_TESTS /\ cmp.within = NUM_TESTS)

\* C1: the display string of a parsed source is parsed again without an
\* error, and compare finds the two terms equal.
C1_RoundTrip ==
  /\ pc \in {"reparsed", "compare"} => term2.err = ""
  /\ pc = "compare" => cmp.result # "false"

(***************************************************************************)
(* Properties of compareODE                                                *)
(***************************************************************************)
\* the pair <<tu, tv>> of the call of compareODE that has returned
called == IF ode.swapped THEN <<str, src>> ELSE <<src, str>>

\* C9: compareODE(tu, tv) returns true when tv is tu with the constants
\* renamed or rescaled.
C9_RenamedOrRescaled ==
  pc = "done" /\ called \in RelatedPairs => ode.result = "true"

\* C10: compareODE(tu, tv) returns false when tv is tu plus a summand with a
\* constant of its own, and compareODE(tv, tu) returns what compareODE(tu, tv)
\* has returned.
C10_NoErasedSummand ==
  pc = "done" =>
    /\ called \in ExtendedPairs => ode.result = "false"
    /\ ode.swapped /\ <<src, str>> \in ExtendedPairs
         => ode.result = ode.first

\* C11: compareODE returns true at once when Term.compare(tu, tv) succeeds
\* and goes to the permutations otherwise.  In a permutation the constants
\* are taken in the order k = 0, ..., N - 1, the comparison for C_k has the
\* other constants at zero, the next constant follows only a comparison that
\* succeeded, and a comparison that failed ends the permutation: the next
\* permutation follows without a further minimize or compare.  The final
\* comparison has no constant at zero and follows the N-th success.  true is
\* returned only from a comparison that succeeded (the first or a final one),
\* false only when every permutation has been left.
C11_VerdictAndOrder ==
  [][/\ pc = "compare" /\ pc' # "compare" =>
          IF cmp.result = "true"
          THEN pc' = "done" /\ ode'.result = "true"
          ELSE pc' = "permutations" /\ ode'.p = 1 /\ ode'.result = "running"
     /\ pc = "permutations" =>
          IF ode.p <= Len(ode.constantPermutations)
          THEN pc' = "constants" /\ ode'.k = 0 /\ ode'.p = ode.p
          ELSE pc' = "done" /\ ode'.result = "false"
     /\ pc = "constants" =>
          IF ode.k < ode.N
          THEN /\ pc' = "scaled" /\ ode'.k = ode.k /\ ode'.p = ode.p
               /\ cmp'.predefinedContext = othersZero(ode.N, ode.k)
               /\ cmp'.tu = ode.tuClone /\ cmp'.tv = ode'.tvClone
          ELSE /\ pc' = "again" /\ ode' = ode
               /\ cmp'.predefinedContext = <<>>
               /\ cmp'.tu = ode.tuClone /\ cmp'.tv = ode.tvClone
     /\ pc = "scaled" /\ pc' # "scaled" =>
          IF cmp.result = "true"
          THEN pc' = "constants" /\ ode'.k = ode.k + 1 /\ ode'.p = ode.p
          ELSE pc' = "permutations" /\ ode'.p = ode.p + 1
     /\ pc = "again" /\ pc' # "again" =>
          IF cmp.result = "true"
          THEN pc' = "done" /\ ode'.result = "true"
          ELSE pc' = "permutations" /\ ode'.p = ode.p + 1
     /\ ode'.result = "true" /\ ode.result # "true" =>
          cmp.result = "true" /\ pc \in {"compare", "again"}
     /\ ode'.result = "false" /\ ode.result # "false" =>
          pc = "permutations" /\ ode.p = Len(ode.constantPermutations) + 1
    ]_vars

\* C11: compareODE has returned true from the second permutation, after the
\* first one was left
C11_Witness ==
  pc = "done" /\ ode.result = "true" /\ ode.p = 2 /\ ode.k = ode.N

\* C12: an evaluation and a comparison change no TermNode object and no
\* binding; compareODE never changes an object of the two terms passed: it
\* rewrites copies only, a copy shares no object with its original, every
\* permutation starts from new copies of the renamed pair, and the renamed
\* pair is the same for every permutation.  The steps that keep pc are the
\* passes of Term.compare; every other step is a step of compareODE.
C12_OnlyClonesRewritten ==
  [][IF pc' = pc
     THEN /\ pc \in {"compare", "scaled", "again"}
          /\ heap' = heap
          /\ cmp'.predefinedContext = cmp.predefinedContext
          /\ cmp'.tu = cmp.tu /\ cmp'.tv = cmp.tv
     ELSE
     /\ heap'.mem # <<>> /\ heap.mem # <<>> =>
          /\ heap'.argU = heap.argU /\ heap'.argV = heap.argV
          /\ \A a \in nodesOf(heap.mem, heap.argU) \cup nodesOf(heap.mem, heap.argV) :
               heap'.mem[a] = heap.mem[a]
     /\ heap'.mem # <<>> =>
          /\ treeAt(heap'.mem, heap'.argU)
               = IF ode'.swapped THEN term2'.t.root ELSE term'.t.root
          /\ treeAt(heap'.mem, heap'.argV)
               = IF ode'.swapped THEN term'.t.root ELSE term2'.t.root
     /\ pc' \in {"permutations", "constants", "scaled", "again", "done"} =>
          \A r, s \in {"argU", "argV", "tu", "tv", "tuClone", "tvClone"} :
            r # s /\ heap'[r] # 0 /\ heap'[s] # 0 /\ ode'.p > 0 =>
              nodesOf(heap'.mem, heap'[r]) \cap nodesOf(heap'.mem, heap'[s]) = {}
     /\ pc \in {"permutations", "constants", "scaled", "again"}
          /\ heap'.mem # <<>> =>
          /\ heap'.tu = heap.tu /\ heap'.tv = heap.tv
          /\ \A a \in nodesOf(heap.mem, heap.tu) \cup nodesOf(heap.mem, heap.tv) :
               heap'.mem[a] = heap.mem[a]
          /\ treeAt(heap'.mem, heap'.tu) = ode'.tu
          /\ treeAt(heap'.mem, heap'.tv) = ode'.tv
     /\ pc = "permutations" /\ pc' = "constants" =>
          /\ heap'.tuClone > Len(heap.mem) /\ heap'.tvClone > Len(heap.mem)
          /\ \A a \in nodesOf(heap'.mem, heap'.tuClone)
                        \cup nodesOf(heap'.mem, heap'.tvClone) : a > Len(heap.mem)
          /\ treeAt(heap'.mem, heap'.tuClone) = ode.tu
          /\ treeAt(heap'.mem, heap'.tvClone)
               = permuted(ode.tv, ode.constantPermutations[ode.p])
     /\ pc' \in {"constants", "scaled", "again"} =>
          /\ treeAt(heap'.mem, heap'.tuClone) = ode'.tuClone
          /\ treeAt(heap'.mem, heap'.tvClone) = ode'.tvClone
    ]_vars

\* C12: compareODE has returned in the second permutation, the copies of
\* which differ from the renamed pair, which differs from the terms passed
C12_Witness ==
  /\ pc = "done" /\ ode.p = 2 /\ ode.N = 2
  /\ treeAt(heap.mem, heap.tu) # treeAt(heap.mem, heap.argU)
  /\ treeAt(heap.mem, heap.tvClone) # treeAt(heap.mem, heap.tv)
  /\ heap.tvClone > heap.tuClone /\ heap.tuClone > heap.tv

\* C13: pi, e, i, true and false evaluate to their fixed values whatever
\* the dict binds them to; every other variable evaluates to the value that
\* the dict binds it to, and, when the dict does not bind it, eval throws
\* the error of an unknown variable and returns no value.
C13_ReservedBeforeDict ==
  pc = "evaluated" =>
    LET id == varId(term.t.root)
    IN /\ isVarNode(term.t.root)
       /\ id = <<"p", "i">> => out = [node |-> const(MathPI, Zero), err |-> ""]
       /\ id = <<"e">> => out = [node |-> const(MathE, Zero), err |-> ""]
       /\ id = <<"i">> => out = [node |-> const(Zero, One), err |-> ""]
       /\ id = <<"t", "r", "u", "e">> => out = [node |-> const(One, Zero), err |-> ""]
       /\ id = <<"f", "a", "l", "s", "e">> => out = [node |-> const(Zero, Zero), err |-> ""]
       /\ id \notin Reserved \cup Transcendental =>
            IF id \in DOMAIN arg
            THEN out = [node |-> arg[id], err |-> ""]
            ELSE out = [node |-> NoNode, err |-> "eval-error: unknown variable"]
       /\ out.err = "" /\ id \notin Transcendental => eval(arg, term.t.root) = out.node

\* C13: a dict binds pi, and pi evaluates to Math.PI
C13_Witness ==
  /\ pc = "evaluated"
  /\ term.t.root.op = OpVar \o <<"p", "i">>
  /\ <<"p", "i">> \in DOMAIN arg
  /\ arg[<<"p", "i">>] # out.node
  /\ out.node = const(MathPI, Zero)

\* the operators of the nodes of a term
RECURSIVE operators(_)
operators(node) ==
  {node.op} \cup UNION {operators(node.c[k]) : k \in 1..Len(node.c)}

\* C14: Term.compare on two terms that Term.parse has returned throws no
\* error: the context binds every variable of the two terms, and eval has a
\* case for every operator of the two terms.
C14_CompareNeverThrows ==
  /\ pc = "evaluated" =>
       /\ out = <<"", "">>
       /\ Elements(getVars(getVars(<<>>, <<>>, cmp.tu), <<>>, cmp.tv)) \subseteq DOMAIN arg
       /\ \A op \in operators(cmp.tu) \cup operators(cmp.tv) :
            isVarOp(op) \/ implemented(op)
  /\ \A k \in 1..Len(fun1Names) : implemented(fun1Names[k])
  /\ \A op \in BinaryOps \cup {OpUnaryMinus, OpAbs} : implemented(op)

\* C14: a pass has evaluated the terms of the sources tanh(x) and sinh(z),
\* which the parser reads as tan(h(x)) and sin(h(z))
C14_Witness ==
  /\ pc = "evaluated"
  /\ <<"t", "a", "n">> \in operators(cmp.tu)
  /\ <<"s", "i", "n">> \in operators(cmp.tv)
  /\ DOMAIN arg = {<<"x">>, <<"h">>, <<"z">>}

\* C15: resize(m, n, initTerm) with m and n in 1..50 returns true and makes
\* the matrix m by n, every element (i, j) that the matrix had before keeps
\* its value and every other element is initTerm; with m or n outside of
\* 1..50 it returns false and leaves the matrix as it was.
C15_ResizeKeepsAndInitializes ==
  pc = "resized" =>
    IF arg.m \in 1..50 /\ arg.n \in 1..50
    THEN /\ out.returned
         /\ matrix.m = arg.m /\ matrix.n = <<arg.n, 1>>
         /\ Len(matrix.v) = arg.m * arg.n
         /\ \A i \in 0..(arg.m - 1), j \in 0..(arg.n - 1) :
              getElement(matrix, i, j)
                = IF i < out.before.m /\ Less(<<j, 1>>, out.before.n)
                  THEN getElement(out.before, i, j)
                  ELSE arg.initTerm
    ELSE ~out.returned /\ matrix = out.before

\* the rule of the claim: a node of a constant variable and a number, of
\* twice the same constant variable, or of the minus or a function on a
\* constant variable becomes the leaf of the constant variable, from the
\* leaves to the root
RECURSIVE collapse(_)
collapse(node) ==
  LET c == [k \in 1..Len(node.c) |-> collapse(node.c[k])]
      n == [node EXCEPT !.c = c]
      leaf(k) == [n EXCEPT !.op = c[k].op, !.c = <<>>]
  IN IF Len(c) = 2 /\ isConstVar(c[1].op) /\ c[2].op = OpConst THEN leaf(1)
     ELSE IF Len(c) = 2 /\ isConstVar(c[2].op) /\ c[1].op = OpConst THEN leaf(2)
     ELSE IF Len(c) = 2 /\ isConstVar(c[1].op) /\ c[1].op = c[2].op THEN leaf(1)
     ELSE IF Len(c) = 1 /\ isConstVar(c[1].op) THEN leaf(1)
     ELSE n

\* C16: prepareODEconstantComparison replaces by the leaf of the constant
\* variable, from the leaves to the root, every node of a constant variable
\* and a number in either order, of twice the same constant variable, and
\* of the unary minus or a function on a constant variable, and leaves
\* every other node as it is.
C16_CollapsesConstants ==
  pc = "prepared" => out = collapse(term.t.root)

RECURSIVE factorial(_)
factorial(n) == IF n <= 1 THEN 1 ELSE n * factorial(n - 1)

\* C17: heapsAlgorithm(range(N), result) with N >= 1 appends N! rows to
\* result, no two rows are equal, and every row is a permutation of
\* 0..N-1.  For the N of the terms of OdeSpec the rows are the ones of the
\* operator heapsAlgorithm.
C17_AllPermutationsOnce ==
  /\ pc \in {"heaps", "done"} =>
       /\ \A r, s \in 1..Len(out.result) : r # s => out.result[r] # out.result[s]
       /\ \A r \in 1..Len(out.result) :
            /\ Len(out.result[r]) = arg
            /\ Elements(out.result[r]) = 0..(arg - 1)
  /\ pc = "done" /\ arg >= 1 => Len(out.result) = factorial(arg)
  /\ pc = "done" /\ arg <= 3 =>
       out.result = heapsAlgorithm(range(arg), <<>>, -1).result

\* C17: the call for N = 4 has returned its 24 rows
C17_Witness ==
  pc = "done" /\ arg = 4 /\ Len(out.result) = 24

\* the term with every variable id of the domain of sigma replaced by
\* sigma[id], all at once
RECURSIVE substituted(_, _)
substituted(node, sigma) ==
  [node EXCEPT
     !.c = [k \in 1..Len(node.c) |-> substituted(node.c[k], sigma)],
     !.op = IF isVarNode(node) /\ varId(node) \in DOMAIN sigma
            THEN OpVar \o sigma[varId(node)] ELSE @]

\* the constants of the two terms before the renaming, in the order in
\* which getVars finds them
discovered ==
  constantsOf(getVars(getVars(<<>>, <<>>,
                              prepareODEconstantComparison(term.t.root)),
                      <<>>, prepareODEconstantComparison(term2.t.root)))

\* the names _C<i> and __C<i>
TemporaryNames ==
  {indexed(<<"_", "C">>, i) : i \in 0..3} \cup {indexed(<<"_", "_", "C">>, i) : i \in 0..3}

\* C18: the first renaming replaces the i-th of the N constants by C<i> in
\* tu and in tv, all constants at once, also when a constant has the new
\* name of another one; the renaming of a permutation replaces C<i> by
\* C<permutation[i]> in tv, all at once; no two constants get the same
\* name, no other variable changes, and no variable of a parsed term has
\* one of the names _C<i> and __C<i>.
C18_SimultaneousRenaming ==
  /\ pc \in {"permutations", "permuted"} =>
       LET N == Len(discovered)
           sigma == [id \in Elements(discovered) |->
                       indexed(<<"C">>, (CHOOSE i \in 1..N : discovered[i] = id) - 1)]
       IN /\ ode.N = N
          /\ ode.tu = substituted(prepareODEconstantComparison(term.t.root), sigma)
          /\ ode.tv = substituted(prepareODEconstantComparison(term2.t.root), sigma)
          /\ \A id, jd \in DOMAIN sigma : sigma[id] = sigma[jd] => id = jd
          /\ Elements(constantsOf(getVars(getVars(<<>>, <<>>, ode.tu), <<>>, ode.tv)))
               = {indexed(<<"C">>, i) : i \in 0..(N - 1)}
          /\ Elements(ode.nonConstantVariables)
               = Elements(nonConstantsOf(getVars(getVars(<<>>, <<>>, term.t.root),
                                                 <<>>, term2.t.root)))
  /\ pc = "permuted" =>
       LET tau == [id \in {indexed(<<"C">>, i) : i \in 0..(ode.N - 1)} |->
                     indexed(<<"C">>,
                             arg[(CHOOSE i \in 1..ode.N : indexed(<<"C">>, i - 1) = id)])]
       IN /\ out = substituted(ode.tv, tau)
          /\ \A id, jd \in DOMAIN tau : tau[id] = tau[jd] => id = jd
          /\ Elements(nonConstantsOf(getVars(<<>>, <<>>, out)))
               = Elements(nonConstantsOf(getVars(<<>>, <<>>, term2.t.root)))
  /\ pc # "start" =>
       \A id \in Elements(getVars(getVars(<<>>, <<>>, term.t.root), <<>>,
                                  term2.t.root)) :
         /\ id \notin TemporaryNames
         /\ \/ Len(id) = 1
            \/ id \in {<<"p", "i">>, <<"t", "r", "u", "e">>,
                       <<"f", "a", "l", "s", "e">>, <<"C", "1">>, <<"C", "2">>}

\* C18: the constants were found in the order C1, C, and the permutation
\* exchanges the two
C18_Witness ==
  /\ pc = "permuted"
  /\ discovered = <<<<"C", "1">>, <<"C">>>>
  /\ arg = <<1, 0>>
  /\ out # ode.tv
  /\ Elements(constantsOf(getVars(<<>>, <<>>, out))) = {<<"C", "0">>, <<"C", "1">>}

\* C19: the variable K of the factor of C_k is none of the variables of tu
\* and tv, so the replacement of K by the number found changes nothing but
\* the factors: after the pass for C_k, tvClone is tvClone of before with
\* C_k replaced by the product of C_k and the number.
C19_ScaleVariableFresh ==
  [][/\ pc' \in {"permutations", "constants", "scaled", "again"} =>
          <<"K">> \notin Elements(getVars(getVars(<<>>, <<>>, term'.t.root),
                                          <<>>, term2'.t.root))
     /\ pc = "constants" /\ pc' = "scaled" =>
          ode'.tvClone
            = setVars(indexed(<<"C">>, ode.k) :>
                        TermNode(<<"*">>,
                                 <<TermNode(OpVar \o indexed(<<"C">>, ode.k),
                                            <<>>, Zero, Zero),
                                   const(ode'.K, Zero)>>, Zero, Zero),
                      ode.tvClone)
    ]_vars

\* one of the values that a pass has seen is a number below 1e-11
below(seen) ==
  \E k \in 1..Len(seen) : ~isNaN(seen[k]) /\ LessPow10(seen[k], MinimizeEpsDigits)

\* C20: minimize starts from K = 0 and step = 1 and makes at most
\* MAX_ITERATIONS passes of its loop; it leaves the loop before that exactly
\* in a pass in which the smallest of the values of the term at K - step, K
\* and K + step is below 1e-11; it returns K and the value of the term at K
\* for the K that it has reached.
C20_MinimizeLoop ==
  [][/\ pc = "start" => out.dvValue = Zero /\ out.step = One /\ out.cnt = 0
     /\ out'.cnt <= MAX_ITERATIONS
     /\ pc = "parsed" /\ pc' \in {"parsed", "left"} =>
          /\ out.cnt < MAX_ITERATIONS
          /\ pc' = "left" <=> below(out'.seen)
          /\ pc' = "parsed" => out'.cnt = out.cnt + 1
     /\ pc' = "returned" =>
          /\ pc = "left" \/ out'.cnt = MAX_ITERATIONS
          /\ out'.returned
               = <<out.dvValue, objective(term.t, arg.dvId, arg.vars, out.dvValue)>>
          /\ minimize(term.t, arg.dvId, arg.vars)
               = [dvValue |-> out'.returned[1], y |-> out'.returned[2],
                  cnt |-> out'.cnt]
    ]_vars

(***************************************************************************)
(* Properties of minimize, pass by pass                                    *)
(***************************************************************************)
\* the value that a pass has seen at the dvValue that it has chosen
chosen(seen, direction) ==
  IF direction = 1 THEN seen[2] ELSE IF direction = -1 THEN seen[3] ELSE seen[1]

\* v is the smallest of the numbers among the values that a pass has seen
smallest(seen, v) ==
  /\ (\E k \in 1..3 : ~isNaN(seen[k])) => ~isNaN(v)
  /\ \A k \in 1..3 : ~isNaN(seen[k]) => ~Less(seen[k], v)

\* C21: in each pass K moves to whichever of K - step, K and K + step has
\* the smallest value of the term; a pass halves step if and only if its
\* direction is the reverse of the direction of the pass before it or it
\* makes no move, and in every other pass, the first one that moves
\* included, step is unchanged.
C21_StepControl ==
  [][pc = "parsed" /\ pc' = "parsed" /\ out'.cnt = out.cnt + 1 =>
       LET direction == out'.lastDirection
       IN /\ out'.dvValue = moved(out.dvValue, out.step, direction)
          /\ smallest(out'.seen, chosen(out'.seen, direction))
          /\ IF direction = 0 \/ (direction # 0 /\ direction = -out.lastDirection)
             THEN out'.step = Div(out.step, <<2, 1>>)
             ELSE out'.step = out.step
    ]_vars

(***************************************************************************)
(* Properties of the lexer                                                 *)
(***************************************************************************)
\* the offset of the first character from `from` on that is no white space
RECURSIVE firstBlack(_, _)
firstBlack(s, from) ==
  IF from < Len(s) /\ s[from + 1] \in WhiteSpace THEN firstBlack(s, from + 1)
  ELSE from

\* what C22 says of a call of next(); joined holds the letters at the start
\* of a token after which a digit may follow
lexed(r, joined) ==
  LET start == firstBlack(src, r.from)
      token == r.token
  IN /\ r.skippedWhiteSpace <=> start > r.from
     /\ token = SubSeq(src, start + 1, r.pos)
     /\ \A k \in 1..Len(token) : token[k] \notin WhiteSpace
     /\ token = <<>> <=> start = Len(src)
     /\ start < Len(src) /\ src[start + 1] \in Delimiters => Len(token) = 1
     /\ token # <<>> /\ isNum(token[1]) =>
          /\ \A k \in 1..Len(token) : ~isAlpha(token[k])
          /\ r.pos < Len(src) => src[r.pos + 1] \in Delimiters \/ isAlpha(src[r.pos + 1])
     /\ token # <<>> /\ isAlpha(token[1]) /\ token[1] \notin Delimiters /\ token[1] \notin joined =>
          /\ \A k \in 1..Len(token) : ~isNum(token[k])
          /\ r.pos < Len(src) => src[r.pos + 1] \in Delimiters \/ isNum(src[r.pos + 1])


\* C22 as stated: next() skips the white space before the token and sets
\* skippedWhiteSpace exactly if it has skipped some; a delimiter is a token
\* of length 1; a token that starts with a digit ends before the first
\* letter and a token that starts with a letter ends before the first
\* digit; the token is empty at the end of the input; no token holds white
\* space.
C22_LexerTokens ==
  \A k \in 1..Len(out) : lexed(out[k], {})

\* C22, amended: the same, but only a token that starts with a letter other
\* than C ends before the first digit.
C22_LexerTokensButC ==
  \A k \in 1..Len(out) : lexed(out[k], {"C"})

\* "2pi" has been lexed to the end as "2", "pi" and the empty token, and a
\* source with white space before a token
C22_Witness ==
  /\ pc = "end"
  /\ \/ src = <<"2", "p", "i">> /\ Len(out) = 3
        /\ out[1].token = <<"2">> /\ out[2].token = <<"p", "i">>
     \/ /\ src = <<"x", " ", "\t", "+">> /\ out[2].skippedWhiteSpace
        /\ out[2].token = <<"+">>

\* the offset after the digits that start at offset from
RECURSIVE afterDigits(_, _)
afterDigits(s, from) ==
  IF from < Len(s) /\ isNum(s[from + 1]) THEN afterDigits(s, from + 1) ELSE from

\* C23: a "C" at the start of a token that one or more digits follow is
\* emitted with all of these digits as one token ("C1", and likewise
\* "C12"); any other letter that a digit follows is split from the digit.
C23_ConstantNamesJoined ==
  \A k \in 1..Len(out) :
    LET r == out[k]
        start == firstBlack(src, r.from)
    IN /\ start + 1 < Len(src) /\ src[start + 1] = "C" /\ isNum(src[start + 2]) =>
            /\ r.pos >= afterDigits(src, start + 1)
            /\ r.token = SubSeq(src, start + 1, r.pos)
       /\ r.token # <<>> /\ isAlpha(r.token[1]) /\ r.token[1] # "C" =>
            \A j \in 1..Len(r.token) : ~isNum(r.token[j])

(***************************************************************************)
(* Properties of the parser: powers                                        *)
(***************************************************************************)
\* the tree of the factor with the source s
factor(s) == structure(parse(s).t.root)

\* C24: for factors a, b and c (numbers, names, groups, absolute values and
\* functions with a parenthesized argument) a^b^c is parsed to the tree of
\* (a^b)^c, which is the power of the power of a and b, to c, and a*b^c is
\* parsed to the tree of a*(b^c), the product of a and the power of b to c.
\* The trees are compared without the flag explicitParentheses.
C24_PowerLeftAssociative ==
  pc = "compare" =>
    /\ term.err = "" /\ term2.err = ""
    /\ structure(term.t.root) = structure(term2.t.root)
    /\ LET root == structure(term.t.root)
       IN IF arg.op = <<"^">>
          THEN /\ root.op = <<"^">> /\ root.c[1].op = <<"^">>
               /\ root.c[1].c = <<factor(arg.a), factor(arg.b)>>
               /\ root.c[2] = factor(arg.c)
          ELSE /\ root.op = <<"*">> /\ root.c[2].op = <<"^">>
               /\ root.c[1] = factor(arg.a)
               /\ root.c[2].c = <<factor(arg.b), factor(arg.c)>>

\* "2.5^sin(x)^(x+1)" and "(2.5^sin(x))^(x+1)" have been parsed
C24_Witness ==
  /\ pc = "compare"
  /\ src = <<"2", ".", "5", "^", "s", "i", "n", "(", "x", ")", "^", "(", "x", "+", "1", ")">>
  /\ term.err = "" /\ term2.err = ""
  /\ term.t.root.op = <<"^">>

(***************************************************************************)
(* Properties of eval: the inverse functions                               *)
(***************************************************************************)
\* the terms s and t are the same up to the order of the operands of + and *
RECURSIVE sameTerm(_, _)
sameTerm(s, t) ==
  /\ s.op = t.op /\ s.re = t.re /\ s.im = t.im /\ Len(s.c) = Len(t.c)
  /\ \/ \A k \in 1..Len(s.c) : sameTerm(s.c[k], t.c[k])
     \/ /\ s.op \in {<<"+">>, <<"*">>} /\ Len(s.c) = 2
        /\ sameTerm(s.c[1], t.c[2]) /\ sameTerm(s.c[2], t.c[1])

\* the identity that C25 states for an inverse function, u^2 written u*u
identity(op, u) ==
  LET i == const(Zero, One)
      one == const(One, Zero)
      times(a, b) == apply(<<"*">>, <<a, b>>)
      plus(a, b) == apply(<<"+">>, <<a, b>>)
      minus(a, b) == apply(<<"-">>, <<a, b>>)
      over(a, b) == apply(<<"/">>, <<a, b>>)
      ln(a) == apply(<<"l", "n">>, <<a>>)
      sqrt(a) == apply(<<"s", "q", "r", "t">>, <<a>>)
  IN CASE op = <<"a", "c", "o", "s">> ->
            times(const(Zero, Neg(One)),
                  ln(plus(u, times(i, sqrt(minus(one, times(u, u)))))))
       [] op = <<"a", "s", "i", "n">> ->
            times(const(Zero, Neg(One)),
                  ln(plus(times(i, u), sqrt(minus(one, times(u, u))))))
       [] op = <<"a", "t", "a", "n">> ->
            times(const(Zero, Rat(1, 2)),
                  ln(over(minus(one, times(i, u)), plus(one, times(i, u)))))
       [] op = <<"a", "c", "o", "s", "h">> ->
            ln(plus(u, sqrt(minus(times(u, u), one))))
       [] op = <<"a", "s", "i", "n", "h">> ->
            ln(plus(u, sqrt(plus(times(u, u), one))))
       [] op = <<"a", "t", "a", "n", "h">> ->
            times(const(Rat(1, 2), Zero),
                  ln(over(plus(one, u), minus(one, u))))

\* C25: the term that eval builds and evaluates for an inverse function is
\* the identity stated for it: acos(u) = -i*ln(u + i*sqrt(1 - u^2)),
\* asin(u) = -i*ln(i*u + sqrt(1 - u^2)), atan(u) = 0.5i*ln((1 - i*u)/(1 + i*u)),
\* acosh(u) = ln(u + sqrt(u^2 - 1)), asinh(u) = ln(u + sqrt(u^2 + 1)),
\* atanh(u) = 0.5*ln((1 + u)/(1 - u)).
C25_InverseIdentities ==
  pc = "built" => sameTerm(out, identity(arg.op, arg.u))

(***************************************************************************)
(* Properties of the trees                                                 *)
(***************************************************************************)
\* the number of operands that belongs to an operator, -1 if it has none
arity(op) ==
  IF op \in BinaryOps THEN 2
  ELSE IF op = OpUnaryMinus \/ op \in Elements(fun1Names) THEN 1
  ELSE IF op = OpConst \/ isVarOp(op) THEN 0
  ELSE -1

RECURSIVE wellFormed(_)
wellFormed(node) ==
  /\ Len(node.c) = arity(node.op)
  /\ \A k \in 1..Len(node.c) : wellFormed(node.c[k])

\* C26: in the tree that parse has produced, and in the tree after any
\* calls of clone, renameVar, setVars and prepareODEconstantComparison on
\* it, a node with + - * / ^ has 2 operands, a unary minus and a function
\* have 1 and a constant and a variable have none.
C26_Arity ==
  pc = "parsed" => wellFormed(term.t.root)

\* sin(C+3)*x after prepareODEconstantComparison and setVars with K*C for C
C26_Witness ==
  /\ pc = "parsed" /\ at = 2
  /\ src = <<"s", "i", "n", "(", "C", "+", "3", ")", "*", "x">>
  /\ term.t.root.op = <<"*">>
  /\ term.t.root.c[1].op = <<"*">>
  /\ term.t.root.c[1].c[1].op = OpVar \o <<"K">>

(***************************************************************************)
(* Properties of compareODE: the size of the search                        *)
(***************************************************************************)
\* the names that start with C in the two terms parsed
constantNames ==
  Elements(constantsOf(getVars(getVars(<<>>, <<>>, term.t.root), <<>>,
                               term2.t.root)))

\* the bounds of the loops of compareODE in the activations o of compareODE
\* and c of Term.compare at the place p; a step is enabled there unless
\* compareODE has returned
loopsBounded(o, c, p) ==
  /\ p \in {"start", "compare", "permutations", "constants", "scaled", "again",
            "done"}
  /\ c.i <= NUM_TESTS /\ c.result \in {"running", "true", "false"}
  /\ o.N <= 3
  /\ p \in {"permutations", "constants", "scaled", "again"} =>
       /\ Len(o.constantPermutations) = (IF o.N = 0 THEN 0 ELSE factorial(o.N))
       /\ Len(o.constantPermutations) <= 6
       /\ Len(o.constantPermutations) * o.N <= 18
       /\ o.p >= 1 /\ o.p <= Len(o.constantPermutations) + 1
       /\ p # "permutations" => o.p <= Len(o.constantPermutations)
  /\ p = "compare" => o.p = 0
  /\ o.k <= o.N
  /\ p = "scaled" => o.k < o.N
  /\ o.cnt <= MAX_ITERATIONS

\* the names that start with C in the terms that parse has produced are
\* among C, C1 and C2, and N is their number
namesBounded ==
  pc # "start" /\ term.err = "" /\ term2.err = "" =>
    /\ constantNames \subseteq {<<"C">>, <<"C", "1">>, <<"C", "2">>}
    /\ pc \in {"permutations", "constants", "scaled", "again"} =>
         ode.N = Cardinality(constantNames)

\* the passes that a call of Term.compare has made, twice, plus one when it
\* has returned
spent == 2 * cmp.i + (IF cmp.result = "running" THEN 0 ELSE 1)

\* the steps of a pass of the loop over the constants, of a pass of the loop
\* over the permutations with three constants, and of a call of compareODE
\* with six permutations, at most
StepsOfConstant == 2 * NUM_TESTS + 3
StepsOfPermutation == 3 * StepsOfConstant + 2 * NUM_TESTS + 4
StepsOfCall == 2 * NUM_TESTS + 3 + 6 * StepsOfPermutation + 2

\* how far the two calls of compareODE have come
progress ==
  (IF ode.swapped THEN StepsOfCall ELSE 0)
  + (CASE pc = "start" -> 0
       [] pc = "compare" -> 1 + spent
       [] pc = "permutations" ->
            2 * NUM_TESTS + 3 + (ode.p - 1) * StepsOfPermutation
       [] pc = "constants" ->
            2 * NUM_TESTS + 3 + (ode.p - 1) * StepsOfPermutation
              + 1 + ode.k * StepsOfConstant
       [] pc = "scaled" ->
            2 * NUM_TESTS + 3 + (ode.p - 1) * StepsOfPermutation
              + 1 + ode.k * StepsOfConstant + 1 + spent
       [] pc = "again" ->
            2 * NUM_TESTS + 3 + (ode.p - 1) * StepsOfPermutation
              + 1 + ode.N * StepsOfConstant + 1 + spent
       [] pc = "done" -> StepsOfCall - 1)

\* C27: compareODE ends, and its search is bounded: there are N!
\* permutations and the loop over them makes at most N! passes, the loop
\* over the constants makes at most N passes in a permutation, and a call
\* of minimize makes at most MAX_ITERATIONS passes; for terms that parse has
\* produced the names that start with C are among C, C1 and C2, so that
\* N <= 3 and there are at most 6 permutations and 18 calls of minimize.
\* It ends because every step takes it further in the bounded measure
\* progress, and a step is enabled until it has returned.
C27_BoundedSearch ==
  [][/\ namesBounded
     /\ loopsBounded(ode, cmp, pc) /\ loopsBounded(ode', cmp', pc')
     /\ progress' > progress
     /\ progress' < 2 * StepsOfCall
    ]_vars

\* compareODE is in the sixth permutation of a search with three constants
C27_Witness ==
  /\ pc = "scaled" /\ ode.N = 3 /\ ode.p = 6
  /\ Len(ode.constantPermutations) = 6

(***************************************************************************)
(* Properties of the parser: numbers                                       *)
(***************************************************************************)
\* s without its white space
RECURSIVE black(_)
black(s) ==
  IF Len(s) = 0 THEN <<>>
  ELSE IF s[1] \in WhiteSpace THEN black(Tail(s))
  ELSE <<s[1]>> \o black(Tail(s))

\* the tokens that the number branch has taken: the source from the start
\* of the number to the start of the token at hand
literal == black(SubSeq(src, at + 1, out.t.pos - Len(out.t.token)))

\* C28: a number is built from a token of digits, and a "." and a further
\* token of digits may follow: the number branch takes no token that starts
\* with a letter or is an operator or a parenthesis, so that no token of
\* the source is discarded.
C28_NumberLiteral ==
  pc = "number" /\ out.err = "" =>
    /\ \A k \in 1..Len(literal) : isNum(literal[k]) \/ literal[k] = "."
    /\ Cardinality({k \in 1..Len(literal) : literal[k] = "."}) <= 1
    /\ out.node.op = OpConst /\ out.node.re = parseFloat(literal)

(***************************************************************************)
(* Properties of prepareODEconstantComparison                              *)
(***************************************************************************)
\* a case of prepareODEconstantComparison rewrites the node
rewritten(node) ==
  \/ /\ node.op \in BinaryOps
     /\ \/ isConstVar(node.c[1].op) /\ node.c[2].op = OpConst
        \/ isConstVar(node.c[2].op) /\ node.c[1].op = OpConst
        \/ isConstVar(node.c[1].op) /\ node.c[1].op = node.c[2].op
  \/ node.op \in PreparedUnaryOps /\ isConstVar(node.c[1].op)

\* a node of the tree is one that a case rewrites
RECURSIVE pending(_)
pending(node) ==
  rewritten(node) \/ \E k \in 1..Len(node.c) : pending(node.c[k])

\* C29: after one call of prepareODEconstantComparison no node is left that
\* one of its cases rewrites, a second call changes nothing, and the names
\* of the variables of the tree are the same before and after the call.
C29_PrepareFixpoint ==
  /\ pc \in {"prepared", "again"} =>
       /\ ~pending(out)
       /\ Elements(getVars(<<>>, <<>>, out))
            = Elements(getVars(<<>>, <<>>, term.t.root))
  /\ pc = "again" => arg = out

\* the example of the documentation has been prepared twice, and the first
\* call has rewritten nodes at several depths
C29_Witness ==
  /\ pc = "again"
  /\ src = <<"s", "i", "n", "(", "e", "x", "p", "(", "c", "o", "s", "(", "C",
     "+", "3", ")", ")", ")", " ", "+", " ", "3", "*", "C", "1", " ", "+",
     " ", "s", "i", "n", "(", "C", "1", "+", "C", "2", ")">>
  /\ pending(term.t.root) /\ out # term.t.root
  /\ out.c[1].c[1].op = OpVar \o <<"C">>

(***************************************************************************)
(* Descent of minimize                                                     *)
(***************************************************************************)
RECURSIVE powerOfTwo(_)
powerOfTwo(d) ==
  d = 1 \/ (d > 1 /\ d % 2 = 0 /\ powerOfTwo(d \div 2))

\* step = 1 / 2^j for a j >= 0
halvedStep(step) ==
  step[1] = 1 /\ powerOfTwo(step[2])

\* j for the denominator 2^j
RECURSIVE log2(_)
log2(d) == IF d <= 1 THEN 0 ELSE 1 + log2(d \div 2)

\* j for the step 1 / 2^j of the activation o
halvingsOf(o) == log2(o.step[2]) + o.halvings

\* what a step of minimize from the value v of the term at the dvValue of
\* the activation o to the value w at the dvValue of the activation o2 keeps
descent(v, o, w, o2) ==
  /\ ~Less(v, w)
  /\ o2.dvValue # o.dvValue =>
       /\ o.halvings = 0
       /\ o2.dvValue \in {Add(o.dvValue, o.step), Sub(o.dvValue, o.step)}
       /\ Less(w, v)
  /\ halvedStep(o.step) /\ o.halvings >= 0
  /\ halvedStep(o2.step) /\ o2.halvings >= 0
  /\ halvingsOf(o2) >= halvingsOf(o)

\* C30: from one pass of minimize to the next the value of the term at the
\* current K never increases, K moves only to a neighbour at which the value
\* is strictly smaller, step is always 1 / 2^j for a j >= 0 and never
\* grows, and the value returned is less than or equal to the value at
\* K = 0 whenever both are numbers.
C30_MonotoneDescent ==
  [][/\ pc \in {"parsed", "left"} =>
          descent(objective(term.t, arg.dvId, arg.vars, out.dvValue), out,
                  objective(term.t, arg.dvId, arg.vars, out'.dvValue), out')
     /\ pc' = "returned" =>
          LET y0 == objective(term.t, arg.dvId, arg.vars, Zero)
              y == out'.returned[2]
          IN ~isNaN(y0) /\ ~isNaN(y) => ~Less(y0, y)
    ]_vars

\* minimize has returned after passes that moved K, halved step and made
\* the value of the term smaller than it is at K = 0
C30_Witness ==
  /\ pc = "returned"
  /\ out.cnt >= 3
  /\ out.dvValue # Zero
  /\ Less(out.step, <<1, 2>>) /\ halvingsOf(out) >= 2
  /\ Less(out.returned[2], objective(term.t, arg.dvId, arg.vars, Zero))

=============================================================================
